---- MODULE Spec2Model ----
(***************************************************************************)
(* Model of the column-value encoders of src/src/encodings/encoding.rs:    *)
(* PlainEncoder, DictEncoder, RleValueEncoder, DeltaBitPackEncoder,        *)
(* DeltaLengthByteArrayEncoder, DeltaByteArrayEncoder and get_encoder.     *)
(*                                                                         *)
(* Machine integers are little-endian byte sequences (i32/u32/f32: 4       *)
(* bytes, i64/u64/f64: 8 bytes, Int96: 12 bytes), so that wrapping         *)
(* arithmetic keeps its width.  A ByteArray is a sequence of bytes.        *)
(* BitWriter, RleEncoder, ByteBuffer/Buffer, MemTracker and hash_util      *)
(* live outside encoding.rs (util::bit_util, encodings::rle,               *)
(* util::memory, util::hash_util) and are modelled from their contracts.   *)
(***************************************************************************)
EXTENDS Integers, Sequences, FiniteSets, TLC

\* ------------------------------------------------------------------------
\* Bounds of the model

MaxPutLen == 2      \* values per put call (short batches)
MaxPuts == 2        \* put calls per encoder instance
MaxFlushes == 2     \* flush_buffer calls per encoder instance

\* ------------------------------------------------------------------------
\* Enumerations of src/src/basic.rs

Type ==
  {"BOOLEAN", "INT32", "INT64", "INT96", "FLOAT", "DOUBLE", "BYTE_ARRAY",
   "FIXED_LEN_BYTE_ARRAY"}

Encoding ==
  {"PLAIN", "PLAIN_DICTIONARY", "RLE", "BIT_PACKED", "DELTA_BINARY_PACKED",
   "DELTA_LENGTH_BYTE_ARRAY", "DELTA_BYTE_ARRAY", "RLE_DICTIONARY"}

\* The enumerations that implement FromStr.  A variant is [enum, ord], ord
\* being its position in the declaration; a string is a TLA+ string.

\* the identifiers of the variants, in declaration order
VariantNames(e) ==
  CASE e = "Type" ->
         <<"BOOLEAN", "INT32", "INT64", "INT96", "FLOAT", "DOUBLE", "BYTE_ARRAY",
           "FIXED_LEN_BYTE_ARRAY">>
    [] e = "LogicalType" ->
         <<"NONE", "UTF8", "MAP", "MAP_KEY_VALUE", "LIST", "ENUM", "DECIMAL",
           "DATE", "TIME_MILLIS", "TIME_MICROS", "TIMESTAMP_MILLIS",
           "TIMESTAMP_MICROS", "UINT_8", "UINT_16", "UINT_32", "UINT_64",
           "INT_8", "INT_16", "INT_32", "INT_64", "JSON", "BSON", "INTERVAL">>
    [] e = "Repetition" -> <<"REQUIRED", "OPTIONAL", "REPEATED">>

ParsedEnums == {"Type", "LogicalType", "Repetition"}

Variants(e) == {[enum |-> e, ord |-> i] : i \in 1..Len(VariantNames(e))}

\* fmt::Display: write!(f, "{:?}", self), the derived Debug of a variant
\* without fields, which prints its identifier
to_string(x) == VariantNames(x.enum)[x.ord]

\* Ok(variant) of from_str
ParseOk(e, ord) == [res |-> "Ok", value |-> [enum |-> e, ord |-> ord]]

\* Err(general_err!(...)) of from_str: no variant of the enumeration
ParseErr(message, other) ==
  [res |-> "General", value |-> [enum |-> "ParquetError", ord |-> 0]]

\* from_str of Repetition
Repetition_from_str(s) ==
  CASE s = "REQUIRED" -> ParseOk("Repetition", 1)
    [] s = "OPTIONAL" -> ParseOk("Repetition", 2)
    [] s = "REPEATED" -> ParseOk("Repetition", 3)
    [] OTHER -> ParseErr("Invalid repetition ", s)

\* from_str of Type without the "BINARY" alternative
Type_from_str_no_binary(s) ==
  CASE s = "BOOLEAN" -> ParseOk("Type", 1)
    [] s = "INT32" -> ParseOk("Type", 2)
    [] s = "INT64" -> ParseOk("Type", 3)
    [] s = "INT96" -> ParseOk("Type", 4)
    [] s = "FLOAT" -> ParseOk("Type", 5)
    [] s = "DOUBLE" -> ParseOk("Type", 6)
    [] s = "BYTE_ARRAY" -> ParseOk("Type", 7)
    [] s = "FIXED_LEN_BYTE_ARRAY" -> ParseOk("Type", 8)
    [] OTHER -> ParseErr("Invalid type ", s)

\* from_str of Type
Type_from_str(s) ==
  CASE s = "BOOLEAN" -> ParseOk("Type", 1)
    [] s = "INT32" -> ParseOk("Type", 2)
    [] s = "INT64" -> ParseOk("Type", 3)
    [] s = "INT96" -> ParseOk("Type", 4)
    [] s = "FLOAT" -> ParseOk("Type", 5)
    [] s = "DOUBLE" -> ParseOk("Type", 6)
    [] s \in {"BYTE_ARRAY", "BINARY"} -> ParseOk("Type", 7)
    [] s = "FIXED_LEN_BYTE_ARRAY" -> ParseOk("Type", 8)
    [] OTHER -> ParseErr("Invalid type ", s)

\* from_str of LogicalType
LogicalType_from_str(s) ==
  CASE s = "NONE" -> ParseOk("LogicalType", 1)
    [] s = "UTF8" -> ParseOk("LogicalType", 2)
    [] s = "MAP" -> ParseOk("LogicalType", 3)
    [] s = "MAP_KEY_VALUE" -> ParseOk("LogicalType", 4)
    [] s = "LIST" -> ParseOk("LogicalType", 5)
    [] s = "ENUM" -> ParseOk("LogicalType", 6)
    [] s = "DECIMAL" -> ParseOk("LogicalType", 7)
    [] s = "DATE" -> ParseOk("LogicalType", 8)
    [] s = "TIME_MILLIS" -> ParseOk("LogicalType", 9)
    [] s = "TIME_MICROS" -> ParseOk("LogicalType", 10)
    [] s = "TIMESTAMP_MILLIS" -> ParseOk("LogicalType", 11)
    [] s = "TIMESTAMP_MICROS" -> ParseOk("LogicalType", 12)
    [] s = "UINT_8" -> ParseOk("LogicalType", 13)
    [] s = "UINT_16" -> ParseOk("LogicalType", 14)
    [] s = "UINT_32" -> ParseOk("LogicalType", 15)
    [] s = "UINT_64" -> ParseOk("LogicalType", 16)
    [] s = "INT_8" -> ParseOk("LogicalType", 17)
    [] s = "INT_16" -> ParseOk("LogicalType", 18)
    [] s = "INT_32" -> ParseOk("LogicalType", 19)
    [] s = "INT_64" -> ParseOk("LogicalType", 20)
    [] s = "JSON" -> ParseOk("LogicalType", 21)
    [] s = "BSON" -> ParseOk("LogicalType", 22)
    [] s = "INTERVAL" -> ParseOk("LogicalType", 23)
    [] OTHER -> ParseErr("Invalid logical type ", s)

\* s.parse::<E>()
from_str(e, s) ==
  CASE e = "Type" -> Type_from_str(s)
    [] e = "LogicalType" -> LogicalType_from_str(s)
    [] e = "Repetition" -> Repetition_from_str(s)

\* the strings handed to from_str: what to_string gives for every variant,
\* the second name of BYTE_ARRAY, and strings that name no variant
ParseInputs ==
  {to_string(x) : x \in UNION {Variants(e) : e \in ParsedEnums}}
    \cup {"BINARY", "", "int32", "Int32", "INT16", "BYTE ARRAY", "REQUIRED ",
          "UTF-8", "PLAIN"}

\* ------------------------------------------------------------------------
\* Bytes, bits and fixed-width integers

Min(a, b) == IF a < b THEN a ELSE b

Max(a, b) == IF a > b THEN a ELSE b

Pow2(n) == 2 ^ n

\* n bytes of zero
Zeros(n) == [i \in 1..n |-> 0]

RECURSIVE ConcatRange(_, _, _)
ConcatRange(ss, lo, hi) ==
  IF lo > hi THEN <<>>
  ELSE IF lo = hi THEN ss[lo]
  ELSE LET mid == (lo + hi) \div 2
       IN  ConcatRange(ss, lo, mid) \o ConcatRange(ss, mid + 1, hi)

\* the concatenation of a sequence of byte sequences
Concat(ss) == ConcatRange(ss, 1, Len(ss))

\* bit i (0 = least significant) of the little-endian byte sequence bs
BitAt(bs, i) == (bs[(i \div 8) + 1] \div Pow2(i % 8)) % 2

\* the low n bits of bs, least significant first
BitsOf(bs, n) == [i \in 1..n |-> BitAt(bs, i - 1)]

\* the byte made of bits[from+1 .. from+8] (missing bits are 0)
ByteOfBits(bits, from) ==
  LET b(j) == IF from + j <= Len(bits) THEN bits[from + j] ELSE 0
  IN  b(1) + 2 * b(2) + 4 * b(3) + 8 * b(4) + 16 * b(5) + 32 * b(6)
        + 64 * b(7) + 128 * b(8)

RECURSIVE NatToBytes(_, _)
\* the little-endian representation, `width` bytes wide, of a small natural
NatToBytes(n, width) ==
  IF width = 0 THEN <<>> ELSE <<n % 256>> \o NatToBytes(n \div 256, width - 1)

\* v as u64 / v as i64 for a usize or small literal
U64(n) == NatToBytes(n, 8)

\* the sign bit of a two's-complement integer
IsNegative(a) == a[Len(a)] >= 128

\* `x as i64` for x: i32 (sign extension)
SignExtend(a, width) ==
  a \o [i \in 1..(width - Len(a)) |-> IF IsNegative(a) THEN 255 ELSE 0]

\* `x as u64` for x: u32 (zero extension)
ZeroExtend(a, width) == a \o Zeros(width - Len(a))

\* `x as i32` for x: i64 (truncation)
Truncate(a, width) == SubSeq(a, 1, width)

RECURSIVE SubBorrow(_, _, _, _)
SubBorrow(a, b, i, borrow) ==
  IF i > Len(a) THEN <<>>
  ELSE LET d == a[i] - b[i] - borrow
       IN  <<d % 256>> \o SubBorrow(a, b, i + 1, IF d < 0 THEN 1 ELSE 0)

\* a.wrapping_sub(b) at the width of a and b
WrappingSub(a, b) == SubBorrow(a, b, 1, 0)

RECURSIVE UnsignedLess(_, _, _)
\* a < b as unsigned integers, comparing from byte i downwards
UnsignedLess(a, b, i) ==
  IF i = 0 THEN FALSE
  ELSE IF a[i] # b[i] THEN a[i] < b[i]
  ELSE UnsignedLess(a, b, i - 1)

\* a < b as signed two's-complement integers of one width
SignedLess(a, b) ==
  IF IsNegative(a) # IsNegative(b) THEN IsNegative(a)
  ELSE UnsignedLess(a, b, Len(a))

\* cmp::min / cmp::max on i64
MinI64(a, b) == IF SignedLess(b, a) THEN b ELSE a

MaxI64(a, b) == IF SignedLess(a, b) THEN b ELSE a

I64_MAX == <<255, 255, 255, 255, 255, 255, 255, 127>>

I64_MIN == <<0, 0, 0, 0, 0, 0, 0, 128>>

\* index (1-based) of the highest set bit of a u64; 0 when x = 0
HighestSetBit(x) ==
  LET set == {i \in 1..(8 * Len(x)) : BitAt(x, i - 1) = 1}
  IN  IF set = {} THEN 0 ELSE CHOOSE i \in set : \A j \in set : j <= i

\* util::bit_util::num_required_bits
num_required_bits(x) == HighestSetBit(x)

\* (v << 1) ^ (v >> 63) for v: i64, as u64
ZigZag(v) ==
  LET s == IF IsNegative(v) THEN 1 ELSE 0
      bits == [i \in 1..64 |-> IF i = 1 THEN s ELSE (BitAt(v, i - 2) + s) % 2]
  IN  [k \in 1..8 |-> ByteOfBits(bits, 8 * (k - 1))]

\* the unsigned LEB128 bytes of v: u64
VlqBytes(v) ==
  LET n == HighestSetBit(v)
      count == Max(1, (n + 6) \div 7)
      bits == BitsOf(v, 64)
      group(k) ==
        LET b(j) == IF 7 * (k - 1) + j <= 64 THEN bits[7 * (k - 1) + j] ELSE 0
        IN  b(1) + 2 * b(2) + 4 * b(3) + 8 * b(4) + 16 * b(5) + 32 * b(6)
              + 64 * b(7)
  IN  [k \in 1..count |-> group(k) + (IF k < count THEN 128 ELSE 0)]

\* ------------------------------------------------------------------------
\* util::bit_util::BitWriter (contract of the bit-level writer)
\*
\* buffer is the backing store up to its high-water mark (bytes beyond it are
\* still the zeros of the allocation); byte_offset bytes of it are written,
\* and bit_offset bits of the next byte are held in buffered_values.

BitWriter_new(max_bytes) ==
  [max_bytes |-> max_bytes, buffer |-> <<>>, start |-> 0, byte_offset |-> 0,
   bit_offset |-> 0, buffered_values |-> 0]

\* new_from_buf(buffer, start): writes into the caller's buffer from offset start
BitWriter_new_from_buf(buffer, start) ==
  [max_bytes |-> Len(buffer), buffer |-> buffer, start |-> start,
   byte_offset |-> start, bit_offset |-> 0, buffered_values |-> 0]

\* buf with `bytes` stored at offset pos (0-based), growing the high-water mark
WriteAt(buf, pos, bytes) ==
  CASE pos = Len(buf) -> buf \o bytes
    [] bytes = <<>> /\ pos < Len(buf) -> buf
    [] Len(bytes) = 1 /\ pos < Len(buf) -> [buf EXCEPT ![pos + 1] = bytes[1]]
    [] OTHER ->
         [i \in 1..Max(Len(buf), pos + Len(bytes)) |->
            IF i > pos /\ i <= pos + Len(bytes) THEN bytes[i - pos]
            ELSE IF i <= Len(buf) THEN buf[i]
            ELSE 0]

\* put_value(v, num_bits): the low num_bits of v, least significant bit first;
\* ok = FALSE (and nothing written) when the bits do not fit max_bytes.  On a
\* byte boundary the whole bytes of v are written as they are.
BitWriter_put_value(w, v, num_bits) ==
  CASE w.byte_offset * 8 + w.bit_offset + num_bits > w.max_bytes * 8 ->
         [w |-> w, ok |-> FALSE]
    [] num_bits = 0 -> [w |-> w, ok |-> TRUE]
    [] w.bit_offset = 0 ->
         LET full == num_bits \div 8
         IN  [w |-> [w EXCEPT !.buffer = WriteAt(@, w.byte_offset, SubSeq(v, 1, full)),
                              !.byte_offset = @ + full,
                              !.bit_offset = num_bits % 8,
                              !.buffered_values =
                                 IF num_bits % 8 = 0 THEN 0
                                 ELSE v[full + 1] % Pow2(num_bits % 8)],
              ok |-> TRUE]
    [] OTHER ->
         LET bits == BitsOf(<<w.buffered_values>>, w.bit_offset) \o BitsOf(v, num_bits)
             full == Len(bits) \div 8
             bytes == [k \in 1..full |-> ByteOfBits(bits, 8 * (k - 1))]
         IN  [w |-> [w EXCEPT !.buffer = WriteAt(@, w.byte_offset, bytes),
                              !.byte_offset = @ + full,
                              !.bit_offset = Len(bits) % 8,
                              !.buffered_values = ByteOfBits(bits, 8 * full)],
              ok |-> TRUE]

\* flush(): the partial byte, zero-padded, becomes a whole byte
BitWriter_flush(w) ==
  IF w.bit_offset = 0 THEN w
  ELSE [w EXCEPT !.buffer = WriteAt(@, w.byte_offset, <<w.buffered_values>>),
                 !.byte_offset = @ + 1,
                 !.bit_offset = 0,
                 !.buffered_values = 0]

\* get_next_byte_ptr(num_bytes): byte-aligns and reserves num_bytes; ptr is the
\* offset of the reserved slot, whose bytes are whatever the buffer holds
BitWriter_get_next_byte_ptr(w, num_bytes) ==
  LET reserve(f) ==
        IF f.byte_offset + num_bytes > f.max_bytes
        THEN [w |-> f, ok |-> FALSE, ptr |-> 0]
        ELSE [w |-> [f EXCEPT !.byte_offset = @ + num_bytes,
                              !.buffer = WriteAt(@, f.byte_offset + num_bytes, <<>>)],
              ok |-> TRUE, ptr |-> f.byte_offset]
  IN  reserve(BitWriter_flush(w))

\* put_aligned(val, num_bytes): reserves num_bytes and copies val into them
BitWriter_put_aligned(w, val, num_bytes) ==
  LET copy(r) ==
        IF ~r.ok THEN [w |-> r.w, ok |-> FALSE]
        ELSE [w |-> [r.w EXCEPT !.buffer = WriteAt(@, r.ptr, SubSeq(val, 1, num_bytes))],
              ok |-> TRUE]
  IN  copy(BitWriter_get_next_byte_ptr(w, num_bytes))

RECURSIVE PutAlignedBytes(_, _, _)
PutAlignedBytes(w, bytes, ok) ==
  IF w.byte_offset < 0 \/ bytes = <<>> THEN [w |-> w, ok |-> ok]
  ELSE LET rest(r) == PutAlignedBytes(r.w, Tail(bytes), ok /\ r.ok)
       IN  rest(BitWriter_put_aligned(w, <<Head(bytes)>>, 1))

\* put_vlq_int(v): one aligned byte per 7-bit group; ok is the conjunction
BitWriter_put_vlq_int(w, v) == PutAlignedBytes(w, VlqBytes(v), TRUE)

\* put_zigzag_vlq_int(v)
BitWriter_put_zigzag_vlq_int(w, v) == BitWriter_put_vlq_int(w, ZigZag(v))

\* flush_buffer(): everything written to date, the last byte zero-padded
BitWriter_flush_buffer(w) ==
  LET written(f) ==
        [w |-> f, bytes |-> SubSeq(f.buffer \o Zeros(f.byte_offset - Len(f.buffer)),
                                   1, f.byte_offset)]
  IN  written(BitWriter_flush(w))

\* clear(): empty again; the backing store is kept as it is
BitWriter_clear(w) ==
  [w EXCEPT !.byte_offset = w.start, !.bit_offset = 0, !.buffered_values = 0]

\* nothing is written: flush_buffer would return no byte after `start`
BitWriterIsEmpty(w) ==
  w.byte_offset = w.start /\ w.bit_offset = 0 /\ w.buffered_values = 0

\* The loops of the code are recursive operators over a loop state.  TLC
\* evaluates operator arguments on demand, so each loop reads a field of its
\* state on entry (a test that never succeeds): the state of an iteration is
\* then computed before the next one starts, as in the code.
\*
\* A function body of several statements is a LET of one operator per
\* statement, each taking the results of the statements before it and
\* applying the operator of the statement after it; the operators are
\* therefore listed last statement first, and the IN clause starts the body.

\* ------------------------------------------------------------------------
\* Results of the Encoder operations: the encoder after the call, the
\* Result (Ok / General / NotYetImplemented; "panic" when the call aborts),
\* the bytes returned, whether a bit-writer write reported failure, and the
\* bytes the call reported to the memory tracker.

Result(e, res, data, failed) ==
  [enc |-> e, res |-> res, data |-> data, write_failed |-> failed, alloc |-> 0]

\* ------------------------------------------------------------------------
\* Plain encoding

PLAIN_BIT_WRITER_SIZE == 256

PlainEncoder_new ==
  [kind |-> "PlainEncoder", buffer |-> <<>>,
   bit_writer |-> BitWriter_new(PLAIN_BIT_WRITER_SIZE)]

\* `for v in values { self.bit_writer.put_value(*v as u64, 1); }` over
\* values[lo..hi]; st = [w, failed], the result of put_value is dropped
RECURSIVE PutBools(_, _, _, _)
PutBools(st, values, lo, hi) ==
  IF st.failed \notin BOOLEAN \/ lo > hi THEN st
  ELSE IF lo = hi
  THEN LET dropped(r) == [w |-> r.w, failed |-> st.failed \/ ~r.ok]
       IN  dropped(BitWriter_put_value(st.w, U64(IF values[lo] THEN 1 ELSE 0), 1))
  ELSE LET mid == (lo + hi) \div 2
       IN  PutBools(PutBools(st, values, lo, mid), values, mid + 1, hi)

\* the bytes of one value without the length of a BYTE_ARRAY
PlainValueBytes_no_length(T, v) == v

\* the bytes PlainEncoder<T>::put appends to its buffer for one value
PlainValueBytes(T, v) ==
  CASE T = "BYTE_ARRAY" -> NatToBytes(Len(v), 4) \o v
    [] OTHER -> v

PlainEncoder_put(e, T, values) ==
  IF T = "BOOLEAN"
  THEN LET ok(st) == Result([e EXCEPT !.bit_writer = st.w], "Ok", <<>>, st.failed)
       IN  ok(PutBools([w |-> e.bit_writer, failed |-> FALSE], values, 1, Len(values)))
  ELSE Result([e EXCEPT !.buffer =
                 @ \o Concat([i \in 1..Len(values) |-> PlainValueBytes(T, values[i])])],
              "Ok", <<>>, FALSE)

PlainEncoder_flush_buffer(e) ==
  LET ok(f) == Result([e EXCEPT !.buffer = <<>>, !.bit_writer = BitWriter_clear(f.w)],
                      "Ok", e.buffer \o f.bytes, FALSE)
  IN  ok(BitWriter_flush_buffer(e.bit_writer))

\* ------------------------------------------------------------------------
\* DELTA_BINARY_PACKED encoding

MAX_PAGE_HEADER_WRITER_SIZE == 32

MAX_BIT_WRITER_SIZE == 10 * 1024 * 1024

DEFAULT_BLOCK_SIZE == 128

DEFAULT_NUM_MINI_BLOCKS == 4

I64_ZERO == Zeros(8)

\* DeltaBitPackEncoderConversion::assert_supported_type: TRUE when it panics
assert_supported_type_panics(T) == T \notin {"INT32", "INT64"}

\* DeltaBitPackEncoderConversion::as_i64 (index is 1-based here)
as_i64(T, values, index) ==
  CASE T = "INT32" -> SignExtend(values[index], 8)
    [] T = "INT64" -> values[index]
    [] OTHER -> I64_ZERO

\* a.saturating_sub(b) at the width of a and b
SaturatingSub(a, b) ==
  IF IsNegative(a) # IsNegative(b) /\ IsNegative(WrappingSub(a, b)) # IsNegative(a)
  THEN [i \in 1..Len(a) |->
          IF IsNegative(a) THEN (IF i = Len(a) THEN 128 ELSE 0)
          ELSE (IF i = Len(a) THEN 127 ELSE 255)]
  ELSE WrappingSub(a, b)

\* subtract with a difference that saturates instead of wrapping
subtract_saturating(T, left, right) ==
  CASE T = "INT32" ->
         SignExtend(SaturatingSub(Truncate(left, 4), Truncate(right, 4)), 8)
    [] T = "INT64" -> SaturatingSub(left, right)
    [] OTHER -> I64_ZERO

\* DeltaBitPackEncoderConversion::subtract
subtract(T, left, right) ==
  CASE T = "INT32" ->
         SignExtend(WrappingSub(Truncate(left, 4), Truncate(right, 4)), 8)
    [] T = "INT64" -> WrappingSub(left, right)
    [] OTHER -> I64_ZERO

\* subtract_u64 with the i32 difference sign-extended to u64
subtract_u64_sign_extended(T, left, right) ==
  CASE T = "INT32" ->
         SignExtend(WrappingSub(Truncate(left, 4), Truncate(right, 4)), 8)
    [] T = "INT64" -> WrappingSub(left, right)
    [] OTHER -> I64_ZERO

\* DeltaBitPackEncoderConversion::subtract_u64
subtract_u64(T, left, right) ==
  CASE T = "INT32" ->
         ZeroExtend(WrappingSub(Truncate(left, 4), Truncate(right, 4)), 8)
    [] T = "INT64" -> WrappingSub(left, right)
    [] OTHER -> I64_ZERO

\* DeltaBitPackEncoder::new with a page header writer of half the size
DeltaBitPackEncoder_new_short_header ==
  [kind |-> "DeltaBitPackEncoder",
   page_header_writer |-> BitWriter_new(MAX_PAGE_HEADER_WRITER_SIZE \div 2),
   bit_writer |-> BitWriter_new(MAX_BIT_WRITER_SIZE),
   total_values |-> 0,
   first_value |-> I64_ZERO,
   current_value |-> I64_ZERO,
   block_size |-> DEFAULT_BLOCK_SIZE,
   mini_block_size |-> DEFAULT_BLOCK_SIZE \div DEFAULT_NUM_MINI_BLOCKS,
   num_mini_blocks |-> DEFAULT_NUM_MINI_BLOCKS,
   values_in_block |-> 0,
   deltas |-> [i \in 1..DEFAULT_BLOCK_SIZE |-> I64_ZERO]]

\* DeltaBitPackEncoder::new, once assert_supported_type has passed
DeltaBitPackEncoder_new ==
  [kind |-> "DeltaBitPackEncoder",
   page_header_writer |-> BitWriter_new(MAX_PAGE_HEADER_WRITER_SIZE),
   bit_writer |-> BitWriter_new(MAX_BIT_WRITER_SIZE),
   total_values |-> 0,
   first_value |-> I64_ZERO,
   current_value |-> I64_ZERO,
   block_size |-> DEFAULT_BLOCK_SIZE,
   mini_block_size |-> DEFAULT_BLOCK_SIZE \div DEFAULT_NUM_MINI_BLOCKS,
   num_mini_blocks |-> DEFAULT_NUM_MINI_BLOCKS,
   values_in_block |-> 0,
   deltas |-> [i \in 1..DEFAULT_BLOCK_SIZE |-> I64_ZERO]]

\* DeltaBitPackEncoder::write_page_header: four writes whose results are
\* ignored; total_values is `self.total_values as u64`
write_page_header_of(e, total_values) ==
  LET written(w4, failed) ==
        [enc |-> [e EXCEPT !.page_header_writer = w4.w],
         write_failed |-> failed \/ ~w4.ok]
      first_value(w3, failed) ==
        written(BitWriter_put_zigzag_vlq_int(w3.w, e.first_value), failed \/ ~w3.ok)
      all_values(w2, failed) ==
        first_value(BitWriter_put_vlq_int(w2.w, total_values), failed \/ ~w2.ok)
      num_mini_blocks(w1) ==
        all_values(BitWriter_put_vlq_int(w1.w, U64(e.num_mini_blocks)), ~w1.ok)
  IN  num_mini_blocks(BitWriter_put_vlq_int(e.page_header_writer, U64(e.block_size)))

\* DeltaBitPackEncoder::write_page_header
write_page_header(e) == write_page_header_of(e, U64(e.total_values))

RECURSIVE MinDelta(_, _, _, _)
\* `for i in 0..values_in_block { min_delta = cmp::min(min_delta, deltas[i]) }`
\* over deltas[lo..hi] (1-based), acc being min_delta so far
MinDelta(deltas, lo, hi, acc) ==
  IF Len(acc) = 0 \/ lo > hi THEN acc
  ELSE IF lo = hi THEN MinI64(acc, deltas[lo])
  ELSE LET mid == (lo + hi) \div 2
       IN  MinDelta(deltas, mid + 1, hi, MinDelta(deltas, lo, mid, acc))

RECURSIVE MaxDelta(_, _, _, _)
\* `for j in 0..n { max_delta = cmp::max(max_delta, deltas[base + j]) }`
\* over deltas[lo..hi] (1-based), acc being max_delta so far
MaxDelta(deltas, lo, hi, acc) ==
  IF Len(acc) = 0 \/ lo > hi THEN acc
  ELSE IF lo = hi THEN MaxI64(acc, deltas[lo])
  ELSE LET mid == (lo + hi) \div 2
       IN  MaxDelta(deltas, mid + 1, hi, MaxDelta(deltas, lo, mid, acc))

RECURSIVE PutPacked(_, _, _, _, _, _, _)
\* the two inner loops of a mini block: values j..n-1 of the mini block as
\* subtract_u64(delta, min_delta), then zeros up to mini_block_size, each
\* with put_value(_, bit_width), whose result is dropped.  st = [w, failed]
PutPacked(st, T, e, base, n, j, ctx) ==
  IF st.failed \notin BOOLEAN \/ j >= e.mini_block_size THEN st
  ELSE LET rest(r) ==
             PutPacked([w |-> r.w, failed |-> st.failed \/ ~r.ok], T, e, base, n, j + 1, ctx)
       IN  rest(BitWriter_put_value(
                  st.w,
                  IF j < n THEN subtract_u64(T, e.deltas[base + j + 1], ctx.min_delta)
                  ELSE U64(0),
                  ctx.bit_width))

RECURSIVE MiniBlocks(_, _, _, _, _, _)
\* `for i in 0..self.num_mini_blocks { ... }` of flush_block_values;
\* st = [w, values_in_block, failed]; ptr is the offset of mini_block_widths, mind is min_delta
MiniBlocks(st, T, e, mind, ptr, i) ==
  IF st.failed \notin BOOLEAN \/ i >= e.num_mini_blocks THEN st
  ELSE LET n == Min(e.mini_block_size, st.values_in_block)
       IN  IF n = 0 THEN st
           ELSE LET rest(p) ==
                      MiniBlocks([w |-> p.w, values_in_block |-> st.values_in_block - n,
                                  failed |-> p.failed],
                                 T, e, mind, ptr, i + 1)
                    pack(bit_width) ==
                      rest(PutPacked([w |-> [st.w EXCEPT !.buffer =
                                                WriteAt(@, ptr + i, <<bit_width>>)],
                                      failed |-> st.failed],
                                     T, e, i * e.mini_block_size, n, 0,
                                     [min_delta |-> mind, bit_width |-> bit_width]))
                    width(max_delta) ==
                      pack(num_required_bits(subtract_u64(T, max_delta, mind)))
                IN  width(MaxDelta(e.deltas, i * e.mini_block_size + 1,
                                   i * e.mini_block_size + n, I64_MIN))

\* DeltaBitPackEncoder::flush_block_values
flush_block_values(e, T) ==
  IF e.values_in_block = 0 THEN Result(e, "Ok", <<>>, FALSE)
  ELSE LET flushed(m) ==
             Result([e EXCEPT !.bit_writer = m.w, !.values_in_block = m.values_in_block],
                    IF m.values_in_block = 0 THEN "Ok" ELSE "panic", <<>>, m.failed)
           mini_blocks(min_delta, z, r) ==
             IF ~r.ok
             THEN Result([e EXCEPT !.bit_writer = r.w], "General", <<>>, TRUE)
             ELSE flushed(MiniBlocks([w |-> r.w, values_in_block |-> e.values_in_block,
                                      failed |-> ~z.ok],
                                     T, e, min_delta, r.ptr, 0))
           widths(min_delta, z) ==
             mini_blocks(min_delta, z, BitWriter_get_next_byte_ptr(z.w, e.num_mini_blocks))
           header(min_delta) ==
             widths(min_delta, BitWriter_put_zigzag_vlq_int(e.bit_writer, min_delta))
       IN  header(MinDelta(e.deltas, 1, e.values_in_block, I64_MAX))

RECURSIVE PutDeltas_flush_late(_, _, _, _, _)
\* the loop of put with the block flushed only once values_in_block exceeds
\* block_size
PutDeltas_flush_late(st, T, values, lo, hi) ==
  IF lo > hi \/ st.res # "Ok" THEN st
  ELSE IF lo = hi
  THEN LET flushed(f) == Result(f.enc, f.res, <<>>, st.write_failed \/ f.write_failed)
           stored(e1) ==
             IF e1.values_in_block > e1.block_size
             THEN flushed(flush_block_values(e1, T))
             ELSE Result(e1, "Ok", <<>>, st.write_failed)
           store(e, value) ==
             stored([e EXCEPT !.deltas[e.values_in_block + 1] =
                                 subtract(T, value, e.current_value),
                              !.current_value = value,
                              !.values_in_block = @ + 1])
       IN  store(st.enc, as_i64(T, values, lo))
  ELSE LET mid == (lo + hi) \div 2
       IN  PutDeltas_flush_late(PutDeltas_flush_late(st, T, values, lo, mid),
                                T, values, mid + 1, hi)

RECURSIVE PutDeltas(_, _, _, _, _)
\* `while idx < values.len() { ... }` of put over values[lo..hi] (1-based);
\* st is a Result, and an error of flush_block_values ends the loop
PutDeltas(st, T, values, lo, hi) ==
  IF lo > hi \/ st.res # "Ok" THEN st
  ELSE IF lo = hi
  THEN LET flushed(f) == Result(f.enc, f.res, <<>>, st.write_failed \/ f.write_failed)
           stored(e1) ==
             IF e1.values_in_block = e1.block_size
             THEN flushed(flush_block_values(e1, T))
             ELSE Result(e1, "Ok", <<>>, st.write_failed)
           store(e, value) ==
             stored([e EXCEPT !.deltas[e.values_in_block + 1] =
                                 subtract(T, value, e.current_value),
                              !.current_value = value,
                              !.values_in_block = @ + 1])
       IN  store(st.enc, as_i64(T, values, lo))
  ELSE LET mid == (lo + hi) \div 2
       IN  PutDeltas(PutDeltas(st, T, values, lo, mid), T, values, mid + 1, hi)

\* Encoder::put of DeltaBitPackEncoder with total_values counting the deltas
\* only
DeltaBitPackEncoder_put_counts_deltas(e, T, values) ==
  IF values = <<>> THEN Result(e, "Ok", <<>>, FALSE)
  ELSE LET first == e.total_values = 0
           e1 == IF first
                 THEN [e EXCEPT !.first_value = as_i64(T, values, 1),
                                !.current_value = as_i64(T, values, 1)]
                 ELSE e
           e2 == [e1 EXCEPT !.total_values = @ + Len(values) - (IF first THEN 1 ELSE 0)]
       IN  PutDeltas(Result(e2, "Ok", <<>>, FALSE), T, values,
                     IF first THEN 2 ELSE 1, Len(values))

\* Encoder::put of DeltaBitPackEncoder
DeltaBitPackEncoder_put(e, T, values) ==
  IF values = <<>> THEN Result(e, "Ok", <<>>, FALSE)
  ELSE LET first == e.total_values = 0
           e1 == IF first
                 THEN [e EXCEPT !.first_value = as_i64(T, values, 1),
                                !.current_value = as_i64(T, values, 1)]
                 ELSE e
           e2 == [e1 EXCEPT !.total_values = @ + Len(values)]
       IN  PutDeltas(Result(e2, "Ok", <<>>, FALSE), T, values,
                     IF first THEN 2 ELSE 1, Len(values))

\* DeltaBitPackEncoder::flush_buffer without the reset of total_values
DeltaBitPackEncoder_flush_buffer_keeps_total(e, T) ==
  LET reset(f, h, hb, bb) ==
        Result([h.enc EXCEPT !.page_header_writer = BitWriter_clear(hb.w),
                             !.bit_writer = BitWriter_clear(bb.w),
                             !.first_value = I64_ZERO,
                             !.current_value = I64_ZERO,
                             !.values_in_block = 0],
               "Ok", hb.bytes \o bb.bytes, f.write_failed \/ h.write_failed)
      buffers(f, h) ==
        reset(f, h, BitWriter_flush_buffer(h.enc.page_header_writer),
              BitWriter_flush_buffer(h.enc.bit_writer))
      header(f) == IF f.res # "Ok" THEN f ELSE buffers(f, write_page_header(f.enc))
  IN  header(flush_block_values(e, T))

\* Encoder::flush_buffer of DeltaBitPackEncoder
DeltaBitPackEncoder_flush_buffer(e, T) ==
  LET reset(f, h, hb, bb) ==
        Result([h.enc EXCEPT !.page_header_writer = BitWriter_clear(hb.w),
                             !.bit_writer = BitWriter_clear(bb.w),
                             !.total_values = 0,
                             !.first_value = I64_ZERO,
                             !.current_value = I64_ZERO,
                             !.values_in_block = 0],
               "Ok", hb.bytes \o bb.bytes, f.write_failed \/ h.write_failed)
      buffers(f, h) ==
        reset(f, h, BitWriter_flush_buffer(h.enc.page_header_writer),
              BitWriter_flush_buffer(h.enc.bit_writer))
      header(f) == IF f.res # "Ok" THEN f ELSE buffers(f, write_page_header(f.enc))
  IN  header(flush_block_values(e, T))

\* ------------------------------------------------------------------------
\* encodings::rle::RleEncoder (contract of the hybrid RLE / bit-packed writer)
\*
\* Values are buffered eight at a time; a value repeated at least eight times
\* becomes a repeated run (header count << 1, then the value in
\* ceil(bit_width / 8) bytes), everything else goes to bit-packed runs of
\* groups of eight (header (groups << 1) | 1, written into a byte reserved
\* before the groups).  A write the sink cannot absorb sets buffer_full.

MAX_GROUPS_PER_BIT_PACKED_RUN == 64

MAX_VLQ_BYTE_LEN == 10

CeilDiv(a, b) == (a + b - 1) \div b

RleEncoder_min_buffer_size(bit_width) ==
  Max(1 + CeilDiv(MAX_GROUPS_PER_BIT_PACKED_RUN * 8 * bit_width, 8),
      MAX_VLQ_BYTE_LEN + CeilDiv(bit_width, 8))

RleEncoder_max_buffer_size(bit_width, num_values) ==
  LET num_runs == CeilDiv(num_values, 8)
  IN  Max(num_runs + num_runs * bit_width,
          num_runs * (1 + CeilDiv(bit_width, 8)))

RleEncoder_new_from_buf(bit_width, buffer, start) ==
  [bit_width |-> bit_width,
   bit_writer |-> BitWriter_new_from_buf(buffer, start),
   buffered_values |-> <<>>,
   current_value |-> 0,
   repeat_count |-> 0,
   bit_packed_count |-> 0,
   indicator_byte_pos |-> -1,
   buffer_full |-> FALSE]

RleEncoder_new(bit_width, buffer_len) ==
  [RleEncoder_new_from_buf(bit_width, <<>>, 0) EXCEPT
     !.bit_writer = BitWriter_new(buffer_len)]

Rle_flush_rle_run(r) ==
  LET written(h, v) ==
        [r EXCEPT !.bit_writer = v.w,
                  !.buffered_values = <<>>,
                  !.repeat_count = 0,
                  !.buffer_full = @ \/ ~(h.ok /\ v.ok)]
      value(h) ==
        written(h, BitWriter_put_aligned(h.w, U64(r.current_value),
                                         CeilDiv(r.bit_width, 8)))
  IN  value(BitWriter_put_vlq_int(r.bit_writer, U64(2 * r.repeat_count)))

RECURSIVE Rle_put_buffered(_, _, _, _)
Rle_put_buffered(st, vals, bit_width, i) ==
  IF st.failed \notin BOOLEAN \/ i > Len(vals) THEN st
  ELSE LET rest(p) ==
             Rle_put_buffered([w |-> p.w, failed |-> st.failed \/ ~p.ok],
                              vals, bit_width, i + 1)
       IN  rest(BitWriter_put_value(st.w, U64(vals[i]), bit_width))

Rle_flush_bit_packed_run(r, update_indicator_byte) ==
  LET num_groups == r.bit_packed_count \div 8
      indicator(res, p) ==
        [r EXCEPT !.bit_writer =
                     IF update_indicator_byte /\ res.ok
                     THEN [p.w EXCEPT !.buffer =
                             WriteAt(@, res.ptr, <<(2 * num_groups + 1) % 256>>)]
                     ELSE p.w,
                  !.buffered_values = <<>>,
                  !.indicator_byte_pos = IF update_indicator_byte THEN -1 ELSE res.ptr,
                  !.bit_packed_count = IF update_indicator_byte THEN 0 ELSE @,
                  !.buffer_full = @ \/ p.failed]
      values(res) ==
        indicator(res, Rle_put_buffered([w |-> res.w, failed |-> ~res.ok],
                                        r.buffered_values, r.bit_width, 1))
  IN  values(IF r.indicator_byte_pos < 0
             THEN BitWriter_get_next_byte_ptr(r.bit_writer, 1)
             ELSE [w |-> r.bit_writer, ok |-> TRUE, ptr |-> r.indicator_byte_pos])

Rle_flush_buffered_values(r) ==
  IF r.repeat_count >= 8
  THEN IF r.bit_packed_count > 0
       THEN Rle_flush_bit_packed_run([r EXCEPT !.buffered_values = <<>>], TRUE)
       ELSE [r EXCEPT !.buffered_values = <<>>]
  ELSE LET packed(r1) ==
             [Rle_flush_bit_packed_run(
                r1, (r1.bit_packed_count \div 8) + 1 >= MAX_GROUPS_PER_BIT_PACKED_RUN)
                EXCEPT !.repeat_count = 0]
       IN  packed([r EXCEPT !.bit_packed_count = @ + Len(r.buffered_values)])

\* put(value): [r, ok]; ok = FALSE when the sink cannot absorb the value
RleEncoder_put(r, value) ==
  IF r.buffer_full THEN [r |-> r, ok |-> FALSE]
  ELSE IF r.current_value = value /\ r.repeat_count >= 8
  THEN [r |-> [r EXCEPT !.repeat_count = @ + 1], ok |-> TRUE]
  ELSE LET done(r3) == [r |-> r3, ok |-> ~r3.buffer_full]
           buffered(r2) ==
             done(IF Len(r2.buffered_values) = 8 THEN Rle_flush_buffered_values(r2)
                  ELSE r2)
           counted(r1) == buffered([r1 EXCEPT !.buffered_values = Append(@, value)])
       IN  counted(IF r.current_value = value
                   THEN [r EXCEPT !.repeat_count = @ + 1]
                   ELSE [(IF r.repeat_count >= 8 THEN Rle_flush_rle_run(r) ELSE r)
                           EXCEPT !.repeat_count = 1, !.current_value = value])

\* flush(): finalises the pending run, padding a partial group with zeros
Rle_flush(r) ==
  IF r.bit_packed_count > 0 \/ r.repeat_count > 0 \/ Len(r.buffered_values) > 0
  THEN IF r.repeat_count > 0 /\ r.bit_packed_count = 0
          /\ (r.repeat_count = Len(r.buffered_values) \/ Len(r.buffered_values) = 0)
       THEN Rle_flush_rle_run(r)
       ELSE LET padded == IF Len(r.buffered_values) > 0
                          THEN r.buffered_values \o Zeros(8 - Len(r.buffered_values))
                          ELSE <<>>
                r1 == [r EXCEPT !.buffered_values = padded,
                                !.bit_packed_count = @ + Len(padded)]
            IN  [Rle_flush_bit_packed_run(r1, TRUE) EXCEPT !.repeat_count = 0]
  ELSE r

\* flush_buffer() / consume(): the encoded bytes, from offset 0 of the sink
RleEncoder_flush_buffer(r) ==
  LET bytes(f, b) ==
        [r |-> [f EXCEPT !.bit_writer = b.w], ok |-> ~f.buffer_full, bytes |-> b.bytes]
      flushed(f) == bytes(f, BitWriter_flush_buffer(f.bit_writer))
  IN  flushed(Rle_flush(r))

RleEncoder_clear(r) ==
  [r EXCEPT !.bit_writer = BitWriter_clear(@),
            !.buffered_values = <<>>,
            !.current_value = 0,
            !.repeat_count = 0,
            !.bit_packed_count = 0,
            !.indicator_byte_pos = -1,
            !.buffer_full = FALSE]

RECURSIVE Rle_put_all(_, _, _, _)
\* `for v in values { if !encoder.put(v)? { return Err(..) } }` over
\* values[lo..hi]; st = [r, ok], the loop ends at the first refused value
Rle_put_all(st, values, lo, hi) ==
  IF lo > hi \/ ~st.ok THEN st
  ELSE IF lo = hi THEN RleEncoder_put(st.r, values[lo])
  ELSE LET mid == (lo + hi) \div 2
       IN  Rle_put_all(Rle_put_all(st, values, lo, mid), values, mid + 1, hi)

\* ------------------------------------------------------------------------
\* Dictionary encoding

INITIAL_HASH_TABLE_SIZE == 1024

HASH_SLOT_EMPTY == -1

\* a load bound of the whole table: the table is never doubled before it is full
MaxLoad_whole_table(hash_table_size) == hash_table_size

\* (hash_table_size as f32 * MAX_HASH_LOAD) as usize, MAX_HASH_LOAD = 0.7
MaxLoad(hash_table_size) == (hash_table_size * 7) \div 10

\* the physical bytes of a value of type T
PhysicalBytes(T, v) ==
  IF T = "BOOLEAN" THEN <<IF v THEN 1 ELSE 0>> ELSE PlainValueBytes(T, v)

RECURSIVE SumBytes(_)
SumBytes(bs) == IF bs = <<>> THEN 0 ELSE Head(bs) + SumBytes(Tail(bs))

\* util::hash_util::hash(value, 0): a 32-bit hash of the value's bytes.  The
\* encoder must work with any hash function; hash_kind selects one:
\*   "low"  the low 16 bits of the value (different values, different slots)
\*   "sum"  the sum of the bytes (some values collide)
\*   "zero" 0 for every value (all values collide)
\*   "high" 1024 times the byte sum (all collide in a table of 1024 slots,
\*          not in a larger one)
\*   "pair" the low 16 bits with bit 0 set (2k and 2k + 1 collide)
hash(hash_kind, T, value) ==
  LET bs == PhysicalBytes(T, value)
      at(i) == IF i <= Len(bs) THEN bs[i] ELSE 0
  IN  CASE hash_kind = "low" -> at(1) + 256 * at(2)
        [] hash_kind = "pair" ->
             2 * (at(1) \div 2) + 1 + 256 * at(2)
        [] hash_kind = "sum" -> SumBytes(bs)
        [] hash_kind = "high" -> 1024 * SumBytes(bs)
        [] OTHER -> 0

\* DictEncoder::new; the encoder keeps the hash function of its run.  The
\* field dict_encoded_size is only ever added to and never read: it is left out.
DictEncoder_new(hash_kind) ==
  [kind |-> "DictEncoder",
   hash_kind |-> hash_kind,
   hash_table_size |-> INITIAL_HASH_TABLE_SIZE,
   mod_bitmask |-> INITIAL_HASH_TABLE_SIZE - 1,
   hash_slots |-> [i \in 1..INITIAL_HASH_TABLE_SIZE |-> HASH_SLOT_EMPTY],
   buffered_indices |-> <<>>,
   uniques |-> <<>>]

\* DictEncoder::num_entries
num_entries(e) == Len(e.uniques)

\* `hash & mask` for a mask of the form 2^k - 1
BitAndMask(h, mask) == h % (mask + 1)

\* the probe loop without the comparison of the value: an occupied home slot
\* counts as a match
Probe_no_compare(slots, size, uniques, value, j) == j

RECURSIVE Probe(_, _, _, _, _)
\* `while index != HASH_SLOT_EMPTY && uniques[index] != *value { j += 1; ... }`
\* over the table `slots` of `size` slots: the slot j at which the loop ends
Probe(slots, size, uniques, value, j) ==
  LET index == slots[j + 1]
  IN  IF index = HASH_SLOT_EMPTY \/ uniques[index + 1] = value THEN j
      ELSE Probe(slots, size, uniques, value, IF j + 1 = size THEN 0 ELSE j + 1)

RECURSIVE Reinsert(_, _, _, _, _, _)
\* `for i in 0..self.hash_table_size { ... new_hash_slots[j] = index; }` of
\* double_table_size over the old slots lo..hi (0-based)
Reinsert(new_hash_slots, e, T, new_size, lo, hi) ==
  IF Len(new_hash_slots) = 0 \/ lo > hi THEN new_hash_slots
  ELSE IF lo = hi
  THEN LET index == e.hash_slots[lo + 1]
       IN  IF index = HASH_SLOT_EMPTY THEN new_hash_slots
           ELSE LET slot(j) == [new_hash_slots EXCEPT ![j + 1] = index]
                    probe(value) ==
                      slot(Probe(new_hash_slots, new_size, e.uniques, value,
                                 BitAndMask(hash(e.hash_kind, T, value), new_size - 1)))
                IN  probe(e.uniques[index + 1])
  ELSE LET mid == (lo + hi) \div 2
       IN  Reinsert(Reinsert(new_hash_slots, e, T, new_size, lo, mid), e, T,
                    new_size, mid + 1, hi)

\* double_table_size without the re-insertion: every index stays in the slot
\* it had in the old table
double_table_size_copies_slots(e, T) ==
  LET new_size == e.hash_table_size * 2
  IN  [e EXCEPT !.hash_table_size = new_size,
                !.mod_bitmask = new_size - 1,
                !.hash_slots = [i \in 1..new_size |->
                                  IF i <= e.hash_table_size THEN e.hash_slots[i]
                                  ELSE HASH_SLOT_EMPTY]]

\* DictEncoder::double_table_size
double_table_size(e, T) ==
  LET new_size == e.hash_table_size * 2
      new_hash_slots ==
        Reinsert([i \in 1..new_size |-> HASH_SLOT_EMPTY], e, T, new_size, 0,
                 e.hash_table_size - 1)
  IN  [e EXCEPT !.hash_table_size = new_size,
                !.mod_bitmask = new_size - 1,
                !.hash_slots = new_hash_slots]

\* DictEncoder::put_one (add_dict_key inlined)
put_one(e, T, value) ==
  LET index == Len(e.uniques)
      added(e1) ==
        [(IF Len(e1.uniques) > MaxLoad(e1.hash_table_size)
          THEN double_table_size(e1, T)
          ELSE e1)
           EXCEPT !.buffered_indices = Append(@, index)]
      slot(j) ==
        IF e.hash_slots[j + 1] = HASH_SLOT_EMPTY
        THEN added([e EXCEPT !.hash_slots[j + 1] = index,
                             !.uniques = Append(@, value)])
        ELSE [e EXCEPT !.buffered_indices = Append(@, e.hash_slots[j + 1])]
  IN  slot(Probe(e.hash_slots, e.hash_table_size, e.uniques, value,
                 BitAndMask(hash(e.hash_kind, T, value), e.mod_bitmask)))

RECURSIVE PutAll(_, _, _, _, _)
\* `for i in values { self.put_one(&i)? }` over values[lo..hi]
PutAll(e, T, values, lo, hi) ==
  IF e.hash_table_size = 0 \/ lo > hi THEN e
  ELSE IF lo = hi THEN put_one(e, T, values[lo])
  ELSE LET mid == (lo + hi) \div 2
       IN  PutAll(PutAll(e, T, values, lo, mid), T, values, mid + 1, hi)

\* Encoder::put of DictEncoder
DictEncoder_put(e, T, values) ==
  Result(PutAll(e, T, values, 1, Len(values)), "Ok", <<>>, FALSE)

\* util::bit_util::log2: ceil(log2(x)) for x >= 1
log2(x) == IF x = 1 THEN 0 ELSE HighestSetBit(U64(x - 1))

\* DictEncoder::bit_width without the case of a dictionary of one entry
bit_width_log2_only(e) ==
  IF num_entries(e) = 0 THEN 0 ELSE log2(num_entries(e))

\* DictEncoder::bit_width as the position of the highest set bit of num_entries
bit_width_highest_set_bit(e) == HighestSetBit(U64(num_entries(e)))

\* DictEncoder::bit_width
bit_width(e) ==
  IF num_entries(e) = 0 THEN 0
  ELSE IF num_entries(e) = 1 THEN 1
  ELSE log2(num_entries(e))

\* DictEncoder::write_dict: a new PlainEncoder<T> over the unique values
write_dict(e, T) ==
  LET flushed(p, f) == Result(e, f.res, f.data, p.write_failed \/ f.write_failed)
      put(p) == flushed(p, PlainEncoder_flush_buffer(p.enc))
  IN  put(PlainEncoder_put(PlainEncoder_new, T, e.uniques))

\* DictEncoder::write_indices clearing the dictionary with the indices
write_indices_clears_dictionary(e) ==
  LET consumed(buffer_len, c) ==
        [Result([DictEncoder_new(e.hash_kind) EXCEPT !.buffered_indices = <<>>],
                IF c.ok THEN "Ok" ELSE "General", c.bytes, ~c.ok)
           EXCEPT !.alloc = buffer_len]
      indices(buffer_len, p) ==
        IF ~p.ok
        THEN [Result(e, "General", <<>>, TRUE) EXCEPT !.alloc = buffer_len]
        ELSE consumed(buffer_len, RleEncoder_flush_buffer(p.r))
      encoder(bw, buffer_len) ==
        indices(buffer_len,
                Rle_put_all([r |-> RleEncoder_new_from_buf(
                                     bw, <<bw>> \o Zeros(buffer_len - 1) \o <<bw>>, 1),
                             ok |-> TRUE],
                            e.buffered_indices, 1, Len(e.buffered_indices)))
      buffer(bw) ==
        encoder(bw, 1 + RleEncoder_min_buffer_size(bw)
                      + RleEncoder_max_buffer_size(bw, Len(e.buffered_indices)))
  IN  buffer(bit_width(e))

\* DictEncoder::write_indices
write_indices(e) ==
  LET consumed(buffer_len, c) ==
        [Result([e EXCEPT !.buffered_indices = <<>>],
                IF c.ok THEN "Ok" ELSE "General", c.bytes, ~c.ok)
           EXCEPT !.alloc = buffer_len]
      indices(buffer_len, p) ==
        IF ~p.ok
        THEN [Result(e, "General", <<>>, TRUE) EXCEPT !.alloc = buffer_len]
        ELSE consumed(buffer_len, RleEncoder_flush_buffer(p.r))
      \* vec![0; buffer_len], buffer[0] = bit_width, then Write::write appends
      encoder(bw, buffer_len) ==
        indices(buffer_len,
                Rle_put_all([r |-> RleEncoder_new_from_buf(
                                     bw, <<bw>> \o Zeros(buffer_len - 1) \o <<bw>>, 1),
                             ok |-> TRUE],
                            e.buffered_indices, 1, Len(e.buffered_indices)))
      buffer(bw) ==
        encoder(bw, 1 + RleEncoder_min_buffer_size(bw)
                      + RleEncoder_max_buffer_size(bw, Len(e.buffered_indices)))
  IN  buffer(bit_width(e))

\* ------------------------------------------------------------------------
\* RLE encoding

DEFAULT_RLE_BUFFER_LEN == 1024

\* RleValueEncoder::new; encoder is <<>> for None and <<r>> for Some(r)
RleValueEncoder_new == [kind |-> "RleValueEncoder", encoder |-> <<>>]

\* RleValueEncoder::put returning an error where the default impl panics
RleValueEncoder_put_general(e, T, values) ==
  IF T # "BOOLEAN" THEN Result(e, "General", <<>>, FALSE)
  ELSE LET rle_encoder == IF e.encoder = <<>>
                          THEN RleEncoder_new(1, DEFAULT_RLE_BUFFER_LEN)
                          ELSE e.encoder[1]
           put(p) == Result([e EXCEPT !.encoder = <<p.r>>],
                            IF p.ok THEN "Ok" ELSE "General", <<>>, ~p.ok)
       IN  put(Rle_put_all([r |-> rle_encoder, ok |-> TRUE],
                           [i \in 1..Len(values) |-> IF values[i] THEN 1 ELSE 0],
                           1, Len(values)))

\* RleValueEncoder::put without the test of what RleEncoder::put returns
RleValueEncoder_put_ignores_full(e, T, values) ==
  IF T # "BOOLEAN" THEN Result(e, "panic", <<>>, FALSE)
  ELSE LET rle_encoder == IF e.encoder = <<>>
                          THEN RleEncoder_new(1, DEFAULT_RLE_BUFFER_LEN)
                          ELSE e.encoder[1]
           put(p) == Result([e EXCEPT !.encoder = <<p.r>>], "Ok", <<>>, ~p.ok)
       IN  put(Rle_put_all([r |-> rle_encoder, ok |-> TRUE],
                           [i \in 1..Len(values) |-> IF values[i] THEN 1 ELSE 0],
                           1, Len(values)))

\* Encoder::put of RleValueEncoder
RleValueEncoder_put(e, T, values) ==
  IF T # "BOOLEAN" THEN Result(e, "panic", <<>>, FALSE)
  ELSE LET rle_encoder == IF e.encoder = <<>>
                          THEN RleEncoder_new(1, DEFAULT_RLE_BUFFER_LEN)
                          ELSE e.encoder[1]
           put(p) == Result([e EXCEPT !.encoder = <<p.r>>],
                            IF p.ok THEN "Ok" ELSE "General", <<>>, ~p.ok)
       IN  put(Rle_put_all([r |-> rle_encoder, ok |-> TRUE],
                           [i \in 1..Len(values) |-> IF values[i] THEN 1 ELSE 0],
                           1, Len(values)))

\* RleValueEncoder::flush_buffer creating the RLE encoder when there is none
RleValueEncoder_flush_buffer_lazy(e, T) ==
  IF T # "BOOLEAN" THEN Result(e, "panic", <<>>, FALSE)
  ELSE LET rle_encoder == IF e.encoder = <<>>
                          THEN RleEncoder_new(1, DEFAULT_RLE_BUFFER_LEN)
                          ELSE e.encoder[1]
           flushed(f) ==
             IF ~f.ok THEN Result([e EXCEPT !.encoder = <<f.r>>], "General", <<>>, TRUE)
             ELSE Result([e EXCEPT !.encoder = <<RleEncoder_clear(f.r)>>], "Ok",
                         NatToBytes(Len(f.bytes), 4) \o f.bytes, FALSE)
       IN  flushed(RleEncoder_flush_buffer(rle_encoder))

\* RleValueEncoder::flush_buffer dropping the RLE encoder where the code
\* clears it
RleValueEncoder_flush_buffer_drops_encoder(e, T) ==
  IF T # "BOOLEAN" THEN Result(e, "panic", <<>>, FALSE)
  ELSE IF e.encoder = <<>> THEN Result(e, "panic", <<>>, FALSE)
  ELSE LET flushed(f) ==
             IF ~f.ok THEN Result([e EXCEPT !.encoder = <<f.r>>], "General", <<>>, TRUE)
             ELSE Result([e EXCEPT !.encoder = <<>>], "Ok",
                         NatToBytes(Len(f.bytes), 4) \o f.bytes, FALSE)
       IN  flushed(RleEncoder_flush_buffer(e.encoder[1]))

\* Encoder::flush_buffer of RleValueEncoder
RleValueEncoder_flush_buffer(e, T) ==
  IF T # "BOOLEAN" THEN Result(e, "panic", <<>>, FALSE)
  ELSE IF e.encoder = <<>> THEN Result(e, "panic", <<>>, FALSE)
  ELSE LET flushed(f) ==
             IF ~f.ok THEN Result([e EXCEPT !.encoder = <<f.r>>], "General", <<>>, TRUE)
             ELSE Result([e EXCEPT !.encoder = <<RleEncoder_clear(f.r)>>], "Ok",
                         NatToBytes(Len(f.bytes), 4) \o f.bytes, FALSE)
       IN  flushed(RleEncoder_flush_buffer(e.encoder[1]))

\* ------------------------------------------------------------------------
\* DELTA_LENGTH_BYTE_ARRAY encoding

\* DeltaLengthByteArrayEncoder::new
DeltaLengthByteArrayEncoder_new ==
  [kind |-> "DeltaLengthByteArrayEncoder",
   len_encoder |-> DeltaBitPackEncoder_new,
   data |-> <<>>]

\* Encoder::put of DeltaLengthByteArrayEncoder
DeltaLengthByteArrayEncoder_put(e, T, values) ==
  IF T # "BYTE_ARRAY" THEN Result(e, "panic", <<>>, FALSE)
  ELSE LET lengths == [i \in 1..Len(values) |-> NatToBytes(Len(values[i]), 4)]
           data(l) ==
             IF l.res # "Ok"
             THEN Result([e EXCEPT !.len_encoder = l.enc], l.res, <<>>, l.write_failed)
             ELSE Result([e EXCEPT !.len_encoder = l.enc, !.data = @ \o values],
                         "Ok", <<>>, l.write_failed)
       IN  data(DeltaBitPackEncoder_put(e.len_encoder, "INT32", lengths))

\* Encoder::flush_buffer of DeltaLengthByteArrayEncoder without data.clear()
DeltaLengthByteArrayEncoder_flush_buffer_keeps_data(e, T) ==
  IF T # "BYTE_ARRAY" THEN Result(e, "panic", <<>>, FALSE)
  ELSE LET data(lengths) ==
             IF lengths.res # "Ok"
             THEN Result([e EXCEPT !.len_encoder = lengths.enc], lengths.res, <<>>,
                         lengths.write_failed)
             ELSE Result([e EXCEPT !.len_encoder = lengths.enc], "Ok",
                         lengths.data \o Concat(e.data), lengths.write_failed)
       IN  data(DeltaBitPackEncoder_flush_buffer(e.len_encoder, "INT32"))

\* Encoder::flush_buffer of DeltaLengthByteArrayEncoder
DeltaLengthByteArrayEncoder_flush_buffer(e, T) ==
  IF T # "BYTE_ARRAY" THEN Result(e, "panic", <<>>, FALSE)
  ELSE LET data(lengths) ==
             IF lengths.res # "Ok"
             THEN Result([e EXCEPT !.len_encoder = lengths.enc], lengths.res, <<>>,
                         lengths.write_failed)
             ELSE Result([e EXCEPT !.len_encoder = lengths.enc, !.data = <<>>], "Ok",
                         lengths.data \o Concat(e.data), lengths.write_failed)
       IN  data(DeltaBitPackEncoder_flush_buffer(e.len_encoder, "INT32"))

\* ------------------------------------------------------------------------
\* DELTA_BYTE_ARRAY encoding

\* DeltaByteArrayEncoder::new
DeltaByteArrayEncoder_new ==
  [kind |-> "DeltaByteArrayEncoder",
   prefix_len_encoder |-> DeltaBitPackEncoder_new,
   suffix_writer |-> DeltaLengthByteArrayEncoder_new,
   previous |-> <<>>]

\* the match loop without the comparison of the bytes
MatchLen_no_compare(previous, current, prefix_len, match_len) == prefix_len

RECURSIVE MatchLen(_, _, _, _)
\* `while match_len < prefix_len && previous[match_len] == current[match_len]`
MatchLen(previous, current, prefix_len, match_len) ==
  IF match_len < prefix_len /\ previous[match_len + 1] = current[match_len + 1]
  THEN MatchLen(previous, current, prefix_len, match_len + 1)
  ELSE match_len

RECURSIVE Prefixes(_, _, _)
\* `for byte_array in values { ... }` of put from values[i] on;
\* st = [previous, prefix_lengths, suffixes]
Prefixes(st, values, i) ==
  IF Len(st.previous) < 0 \/ i > Len(values) THEN st
  ELSE LET current == values[i]
           prefix_len == Min(Len(st.previous), Len(current))
           match_len == MatchLen(st.previous, current, prefix_len, 0)
       IN  Prefixes([previous |-> current,
                     prefix_lengths |-> Append(st.prefix_lengths, match_len),
                     suffixes |-> Append(st.suffixes,
                                         SubSeq(current, match_len + 1, Len(current)))],
                    values, i + 1)

\* Encoder::put of DeltaByteArrayEncoder with `previous` emptied at its start
DeltaByteArrayEncoder_put_forgets_previous(e, T, values) ==
  IF T # "BYTE_ARRAY" THEN Result(e, "panic", <<>>, FALSE)
  ELSE LET suffixes(st, p, q) ==
             Result([e EXCEPT !.previous = st.previous,
                              !.prefix_len_encoder = p.enc,
                              !.suffix_writer = q.enc],
                    q.res, <<>>, p.write_failed \/ q.write_failed)
           prefix_lengths(st, p) ==
             IF p.res # "Ok"
             THEN Result([e EXCEPT !.previous = st.previous,
                                   !.prefix_len_encoder = p.enc],
                         p.res, <<>>, p.write_failed)
             ELSE suffixes(st, p, DeltaLengthByteArrayEncoder_put(e.suffix_writer, T,
                                                                  st.suffixes))
           split(st) ==
             prefix_lengths(st, DeltaBitPackEncoder_put(
                                  e.prefix_len_encoder, "INT32",
                                  [i \in 1..Len(values) |->
                                     NatToBytes(st.prefix_lengths[i], 4)]))
       IN  split(Prefixes([previous |-> <<>>, prefix_lengths |-> <<>>,
                           suffixes |-> <<>>], values, 1))

\* Encoder::put of DeltaByteArrayEncoder
DeltaByteArrayEncoder_put(e, T, values) ==
  IF T # "BYTE_ARRAY" THEN Result(e, "panic", <<>>, FALSE)
  ELSE LET suffixes(st, p, q) ==
             Result([e EXCEPT !.previous = st.previous,
                              !.prefix_len_encoder = p.enc,
                              !.suffix_writer = q.enc],
                    q.res, <<>>, p.write_failed \/ q.write_failed)
           prefix_lengths(st, p) ==
             IF p.res # "Ok"
             THEN Result([e EXCEPT !.previous = st.previous,
                                   !.prefix_len_encoder = p.enc],
                         p.res, <<>>, p.write_failed)
             ELSE suffixes(st, p, DeltaLengthByteArrayEncoder_put(e.suffix_writer, T,
                                                                  st.suffixes))
           split(st) ==
             prefix_lengths(st, DeltaBitPackEncoder_put(
                                  e.prefix_len_encoder, "INT32",
                                  [i \in 1..Len(values) |->
                                     NatToBytes(st.prefix_lengths[i], 4)]))
       IN  split(Prefixes([previous |-> e.previous, prefix_lengths |-> <<>>,
                           suffixes |-> <<>>], values, 1))

\* Encoder::flush_buffer of DeltaByteArrayEncoder
DeltaByteArrayEncoder_flush_buffer(e, T) ==
  IF T # "BYTE_ARRAY" THEN Result(e, "panic", <<>>, FALSE)
  ELSE LET total(lengths, suffixes) ==
             Result([e EXCEPT !.prefix_len_encoder = lengths.enc,
                              !.suffix_writer = suffixes.enc],
                    suffixes.res,
                    IF suffixes.res = "Ok" THEN lengths.data \o suffixes.data
                    ELSE <<>>,
                    lengths.write_failed \/ suffixes.write_failed)
           prefix(lengths) ==
             IF lengths.res # "Ok"
             THEN Result([e EXCEPT !.prefix_len_encoder = lengths.enc], lengths.res,
                         <<>>, lengths.write_failed)
             ELSE total(lengths,
                        DeltaLengthByteArrayEncoder_flush_buffer(e.suffix_writer, T))
       IN  prefix(DeltaBitPackEncoder_flush_buffer(e.prefix_len_encoder, "INT32"))

\* ------------------------------------------------------------------------
\* The Encoder trait and the factory

\* bytes reported to the memory tracker when the hash slots of a new
\* DictEncoder are sized: INITIAL_HASH_TABLE_SIZE slots of an i32
DictSlotsBytes == INITIAL_HASH_TABLE_SIZE * 4

\* get_encoder rejecting the pairs outside the supported table
get_encoder_validating(T, encoding, hash_kind) ==
  CASE encoding = "PLAIN" -> Result(PlainEncoder_new, "Ok", <<>>, FALSE)
    [] encoding \in {"RLE_DICTIONARY", "PLAIN_DICTIONARY"} ->
         [Result(DictEncoder_new(hash_kind), "Ok", <<>>, FALSE)
            EXCEPT !.alloc = DictSlotsBytes]
    [] encoding = "RLE" /\ T = "BOOLEAN" ->
         Result(RleValueEncoder_new, "Ok", <<>>, FALSE)
    [] encoding = "DELTA_BINARY_PACKED" /\ ~assert_supported_type_panics(T) ->
         Result(DeltaBitPackEncoder_new, "Ok", <<>>, FALSE)
    [] encoding = "DELTA_LENGTH_BYTE_ARRAY" /\ T = "BYTE_ARRAY" ->
         Result(DeltaLengthByteArrayEncoder_new, "Ok", <<>>, FALSE)
    [] encoding = "DELTA_BYTE_ARRAY" /\ T = "BYTE_ARRAY" ->
         Result(DeltaByteArrayEncoder_new, "Ok", <<>>, FALSE)
    [] OTHER -> Result(<<>>, "NotYetImplemented", <<>>, FALSE)

\* get_encoder sizing a hash table before it looks at the encoding id
get_encoder_eager(T, encoding, hash_kind) ==
  LET dict == DictEncoder_new(hash_kind)
  IN  CASE encoding = "PLAIN" ->
             [Result(PlainEncoder_new, "Ok", <<>>, FALSE) EXCEPT !.alloc = DictSlotsBytes]
        [] encoding \in {"RLE_DICTIONARY", "PLAIN_DICTIONARY"} ->
             [Result(dict, "Ok", <<>>, FALSE) EXCEPT !.alloc = DictSlotsBytes]
        [] encoding = "RLE" ->
             [Result(RleValueEncoder_new, "Ok", <<>>, FALSE) EXCEPT !.alloc = DictSlotsBytes]
        [] encoding = "DELTA_BINARY_PACKED" ->
             IF assert_supported_type_panics(T)
             THEN Result(<<>>, "panic", <<>>, FALSE)
             ELSE [Result(DeltaBitPackEncoder_new, "Ok", <<>>, FALSE)
                     EXCEPT !.alloc = DictSlotsBytes]
        [] encoding = "DELTA_LENGTH_BYTE_ARRAY" ->
             [Result(DeltaLengthByteArrayEncoder_new, "Ok", <<>>, FALSE)
                EXCEPT !.alloc = DictSlotsBytes]
        [] encoding = "DELTA_BYTE_ARRAY" ->
             [Result(DeltaByteArrayEncoder_new, "Ok", <<>>, FALSE)
                EXCEPT !.alloc = DictSlotsBytes]
        [] OTHER ->
             [Result(<<>>, "NotYetImplemented", <<>>, FALSE)
                EXCEPT !.alloc = DictSlotsBytes]

\* get_encoder::<T>(desc, encoding, mem_tracker)
get_encoder(T, encoding, hash_kind) ==
  CASE encoding = "PLAIN" -> Result(PlainEncoder_new, "Ok", <<>>, FALSE)
    [] encoding \in {"RLE_DICTIONARY", "PLAIN_DICTIONARY"} ->
         [Result(DictEncoder_new(hash_kind), "Ok", <<>>, FALSE)
            EXCEPT !.alloc = DictSlotsBytes]
    [] encoding = "RLE" -> Result(RleValueEncoder_new, "Ok", <<>>, FALSE)
    [] encoding = "DELTA_BINARY_PACKED" ->
         IF assert_supported_type_panics(T)
         THEN Result(<<>>, "panic", <<>>, FALSE)
         ELSE Result(DeltaBitPackEncoder_new, "Ok", <<>>, FALSE)
    [] encoding = "DELTA_LENGTH_BYTE_ARRAY" ->
         Result(DeltaLengthByteArrayEncoder_new, "Ok", <<>>, FALSE)
    [] encoding = "DELTA_BYTE_ARRAY" ->
         Result(DeltaByteArrayEncoder_new, "Ok", <<>>, FALSE)
    [] OTHER -> Result(<<>>, "NotYetImplemented", <<>>, FALSE)

\* Encoder::put, by the implementation behind the trait object
Encoder_put(e, T, values) ==
  CASE e.kind = "PlainEncoder" -> PlainEncoder_put(e, T, values)
    [] e.kind = "DictEncoder" -> DictEncoder_put(e, T, values)
    [] e.kind = "RleValueEncoder" -> RleValueEncoder_put(e, T, values)
    [] e.kind = "DeltaBitPackEncoder" -> DeltaBitPackEncoder_put(e, T, values)
    [] e.kind = "DeltaLengthByteArrayEncoder" ->
         DeltaLengthByteArrayEncoder_put(e, T, values)
    [] e.kind = "DeltaByteArrayEncoder" -> DeltaByteArrayEncoder_put(e, T, values)

\* Encoder::flush_buffer, by the implementation behind the trait object
Encoder_flush_buffer(e, T) ==
  CASE e.kind = "PlainEncoder" -> PlainEncoder_flush_buffer(e)
    [] e.kind = "DictEncoder" -> write_indices(e)
    [] e.kind = "RleValueEncoder" -> RleValueEncoder_flush_buffer(e, T)
    [] e.kind = "DeltaBitPackEncoder" -> DeltaBitPackEncoder_flush_buffer(e, T)
    [] e.kind = "DeltaLengthByteArrayEncoder" ->
         DeltaLengthByteArrayEncoder_flush_buffer(e, T)
    [] e.kind = "DeltaByteArrayEncoder" -> DeltaByteArrayEncoder_flush_buffer(e, T)

\* Encoder::encoding with DictEncoder reporting RLE_DICTIONARY
Encoder_encoding_rle_dictionary(e) ==
  CASE e.kind = "PlainEncoder" -> "PLAIN"
    [] e.kind = "DictEncoder" -> "RLE_DICTIONARY"
    [] e.kind = "RleValueEncoder" -> "RLE"
    [] e.kind = "DeltaBitPackEncoder" -> "DELTA_BINARY_PACKED"
    [] e.kind = "DeltaLengthByteArrayEncoder" -> "DELTA_LENGTH_BYTE_ARRAY"
    [] e.kind = "DeltaByteArrayEncoder" -> "DELTA_BYTE_ARRAY"

\* Encoder::encoding, by the implementation behind the trait object
Encoder_encoding(e) ==
  CASE e.kind = "PlainEncoder" -> "PLAIN"
    [] e.kind = "DictEncoder" -> "PLAIN_DICTIONARY"
    [] e.kind = "RleValueEncoder" -> "RLE"
    [] e.kind = "DeltaBitPackEncoder" -> "DELTA_BINARY_PACKED"
    [] e.kind = "DeltaLengthByteArrayEncoder" -> "DELTA_LENGTH_BYTE_ARRAY"
    [] e.kind = "DeltaByteArrayEncoder" -> "DELTA_BYTE_ARRAY"

\* ------------------------------------------------------------------------
\* Values of the physical types that the calls of the model draw from

I32_MAX == <<255, 255, 255, 127>>

I32_MIN == <<0, 0, 0, 128>>

Values(T) ==
  CASE T = "BOOLEAN" -> {TRUE, FALSE}
    [] T = "INT32" -> {NatToBytes(0, 4), I32_MIN}
    [] T = "INT64" -> {NatToBytes(0, 8), I64_MAX}
    [] T = "INT96" -> {NatToBytes(0, 12), NatToBytes(1, 4) \o NatToBytes(2, 8)}
    [] T = "FLOAT" -> {<<0, 0, 128, 63>>, <<0, 0, 0, 128>>}
    [] T = "DOUBLE" -> {<<0, 0, 0, 0, 0, 0, 240, 63>>, <<0, 0, 0, 0, 0, 0, 0, 128>>}
    [] T = "BYTE_ARRAY" -> {<<97>>, <<97, 98>>}
    [] T = "FIXED_LEN_BYTE_ARRAY" -> {<<97, 98>>, <<97, 99>>}

SeqsUpTo(S, n) == UNION {[1..k -> S] : k \in 0..n}

\* the slices handed to put
Batches(T) == SeqsUpTo(Values(T), MaxPutLen)

\* a batch longer than the 2048 bits of the bit writer of a PlainEncoder
LongBoolLen == 2049

LongBatches(T) ==
  IF T = "BOOLEAN" THEN {[i \in 1..LongBoolLen |-> TRUE]} ELSE {}

HashKinds == {"low", "zero"}

\* longest run of distinct values handed to one put of a DictEncoder
MaxDictLen == 5

\* the first values of those runs
DictStarts == {0, 4}

\* runs of consecutive INT32 values: with two puts a dictionary grows to nine
\* entries
DictBatches ==
  {[i \in 1..len |-> NatToBytes(start + i - 1, 4)] :
     start \in DictStarts, len \in 0..MaxDictLen}

\* longest run of consecutive integers handed to one put of a
\* DeltaBitPackEncoder: one value more than the first value and a block of
\* 128 deltas
MaxRampLen == 130

\* one value (no delta), two values (one mini block of one block), a full
\* block of deltas, and one delta more
RampLens == {1, 2, MaxRampLen - 1, MaxRampLen}

\* [1, 2, ...] and the run that continues the longest one
RampStarts == {1, MaxRampLen + 1}

\* the width in bytes of a value of an integer type
IntWidth(T) == IF T = "INT32" THEN 4 ELSE 8

Ramps(T) ==
  {[i \in 1..len |-> NatToBytes(start + i - 1, IntWidth(T))] :
     start \in RampStarts, len \in RampLens}

\* pairs whose difference overflows the native width
WrapBatches(T) ==
  IF T = "INT32" THEN {<<I32_MIN, I32_MAX>>, <<I32_MAX, I32_MIN>>}
  ELSE {<<I64_MIN, I64_MAX>>, <<I64_MAX, I64_MIN>>}

DeltaBatches(T) == Batches(T) \cup WrapBatches(T) \cup Ramps(T)

\* the u64 2^k - 1 (k <= 64) and the u64 2^k (k < 64)
OnesBelow(k) ==
  [i \in 1..8 |-> IF 8 * i <= k THEN 255
                  ELSE IF 8 * (i - 1) >= k THEN 0 ELSE Pow2(k - 8 * (i - 1)) - 1]

OneBit(k) ==
  [i \in 1..8 |-> IF (k \div 8) + 1 = i THEN Pow2(k % 8) ELSE 0]

\* numbers of 7-bit groups below which the 64-bit values of a page header
\* are taken
HeaderGroups == {0, 1, 2, 5, 9}

\* 64-bit values at which a ULEB128 integer gets one byte longer (2^7k - 1
\* and 2^7k), and the largest one: the total_values and first_value of a
\* page header
HeaderValues ==
  {OnesBelow(7 * k) : k \in HeaderGroups} \cup {OneBit(7 * k) : k \in HeaderGroups}
    \cup {OnesBelow(64)}

\* "axis", "axle", "bye"
Words == {<<97, 120, 105, 115>>, <<97, 120, 108, 101>>, <<98, 121, 101>>}

\* the slices of byte arrays handed to put of a DeltaByteArrayEncoder
WordBatches ==
  SeqsUpTo(Words, MaxPutLen)
    \cup {<<<<97, 120, 105, 115>>, <<97, 120, 108, 101>>, <<98, 121, 101>>>>}

\* ------------------------------------------------------------------------
\* The program: a caller obtains one encoder from get_encoder and then calls
\* put, flush_buffer, encoding and (on a DictEncoder) write_dict on it.

VARIABLES
  status,       \* "none": no encoder requested yet; "live": the caller holds an
                \* encoder; "failed": get_encoder returned Err; "aborted": a
                \* call panicked
  ptype,        \* the physical type T of the encoder
  requested,    \* the encoding id passed to get_encoder
  enc,          \* the encoder
  ret,          \* the last call and what it returned
  pending,      \* history: the values put since the last Ok flush_buffer
  prior,        \* history: the value put last before those of `pending`
                \* (<<>> when there is none)
  base,         \* history: the encoder as get_encoder or the last Ok
                \* flush_buffer left it, before the values of `pending`
  seen,         \* history: the distinct values put so far, in first-seen order
  puts,         \* number of put calls made
  flushes,      \* number of flush_buffer calls made
  mem_tracker   \* bytes reported to the memory tracker

vars == <<status, ptype, requested, enc, ret, pending, prior, base, seen,
          puts, flushes, mem_tracker>>

\* what a call returned; batch is the value of `pending` when it was made
Ret(op, r, batch) ==
  [op |-> op, res |-> r.res, data |-> r.data, write_failed |-> r.write_failed,
   batch |-> batch]

RECURSIVE FirstSeen(_, _, _, _)
\* acc extended by the values of values[lo..hi] not yet in it
FirstSeen(acc, values, lo, hi) ==
  IF Len(acc) < 0 \/ lo > hi THEN acc
  ELSE IF lo = hi
  THEN IF \E k \in 1..Len(acc) : acc[k] = values[lo] THEN acc
       ELSE Append(acc, values[lo])
  ELSE LET mid == (lo + hi) \div 2
       IN  FirstSeen(FirstSeen(acc, values, lo, mid), values, mid + 1, hi)

Init ==
  /\ status = "none"
  /\ ptype = "BOOLEAN"
  /\ requested = "PLAIN"
  /\ enc = <<>>
  /\ ret = Ret("none", Result(<<>>, "Ok", <<>>, FALSE), <<>>)
  /\ pending = <<>>
  /\ prior = <<>>
  /\ base = <<>>
  /\ seen = <<>>
  /\ puts = 0
  /\ flushes = 0
  /\ mem_tracker = 0

\* get_encoder::<T>(desc, encoding, mem_tracker)
GetEncoder(T, encoding, hash_kind) ==
  /\ status = "none"
  /\ \E r \in {get_encoder(T, encoding, hash_kind)} :    \* r: what the call returns
         /\ status' = CASE r.res = "Ok" -> "live"
                        [] r.res = "panic" -> "aborted"
                        [] OTHER -> "failed"
         /\ enc' = r.enc
         /\ base' = r.enc
         /\ ret' = Ret("get_encoder", r, <<>>)
         /\ mem_tracker' = mem_tracker + r.alloc
  /\ ptype' = T
  /\ requested' = encoding
  /\ UNCHANGED <<pending, prior, seen, puts, flushes>>

\* encoder.put(values)
Put(values) ==
  /\ status = "live"
  /\ puts < MaxPuts
  /\ \E r \in {Encoder_put(enc, ptype, values)} :
         /\ status' = IF r.res = "panic" THEN "aborted" ELSE "live"
         /\ enc' = r.enc
         /\ ret' = Ret("put", r, pending)
         /\ mem_tracker' = mem_tracker + r.alloc
  /\ pending' = pending \o values
  /\ seen' = FirstSeen(seen, values, 1, Len(values))
  /\ puts' = puts + 1
  /\ UNCHANGED <<ptype, requested, prior, base, flushes>>

\* encoder.flush_buffer()
Flush ==
  /\ status = "live"
  /\ flushes < MaxFlushes
  /\ \E r \in {Encoder_flush_buffer(enc, ptype)} :
         /\ status' = IF r.res = "panic" THEN "aborted" ELSE "live"
         /\ enc' = r.enc
         /\ ret' = Ret("flush_buffer", r, pending)
         /\ mem_tracker' = mem_tracker + r.alloc
         /\ pending' = IF r.res = "Ok" THEN <<>> ELSE pending
         /\ prior' = IF r.res = "Ok" /\ pending # <<>>
                     THEN pending[Len(pending)] ELSE prior
         /\ base' = IF r.res = "Ok" THEN r.enc ELSE base
  /\ flushes' = flushes + 1
  /\ UNCHANGED <<ptype, requested, seen, puts>>

\* encoder.encoding()
EncodingCall ==
  /\ status = "live"
  /\ ret' = Ret("encoding", Result(enc, Encoder_encoding(enc), <<>>, FALSE), pending)
  /\ UNCHANGED <<status, ptype, requested, enc, pending, prior, base, seen,
                 puts, flushes, mem_tracker>>

\* dict_encoder.write_dict()
WriteDict ==
  /\ status = "live"
  /\ enc.kind = "DictEncoder"
  /\ \E r \in {write_dict(enc, ptype)} :
         /\ enc' = r.enc
         /\ ret' = Ret("write_dict", r, pending)
         /\ mem_tracker' = mem_tracker + r.alloc
  /\ UNCHANGED <<status, ptype, requested, pending, prior, base, seen, puts,
                 flushes>>

Next ==
  \/ \E T \in Type, encoding \in Encoding :
       \E hash_kind \in IF encoding \in {"PLAIN_DICTIONARY", "RLE_DICTIONARY"}
                        THEN HashKinds ELSE {"low"} :
         GetEncoder(T, encoding, hash_kind)
  \/ \E values \in Batches(ptype) : Put(values)
  \/ Flush
  \/ EncodingCall
  \/ WriteDict

Spec == Init /\ [][Next]_vars

\* PlainEncoder<BoolType> alone, with batches that overflow its bit writer
NextPlainBool ==
  \/ GetEncoder("BOOLEAN", "PLAIN", "low")
  \/ \E values \in Batches("BOOLEAN") \cup LongBatches("BOOLEAN") : Put(values)
  \/ Flush
  \/ EncodingCall

SpecPlainBool == Init /\ [][NextPlainBool]_vars

\* DictEncoder<Int32Type> alone, with dictionaries of up to nine entries
NextDict ==
  \/ \E hash_kind \in HashKinds : GetEncoder("INT32", "PLAIN_DICTIONARY", hash_kind)
  \/ \E values \in DictBatches : Put(values)
  \/ Flush
  \/ EncodingCall
  \/ WriteDict

SpecDict == Init /\ [][NextDict]_vars

\* longest run of distinct values handed to one put of a DictEncoder whose
\* table is to grow: one entry more than the load of a table of 1024 slots
MaxGrowLen == 717

GrowLens == {MaxGrowLen - 1, MaxGrowLen}

\* the second run starts where the first has ended and wraps a table of 1024
\* slots; both runs together overload a table of 2048 slots
GrowStarts == {0, INITIAL_HASH_TABLE_SIZE - 24}

GrowBatches ==
  {[i \in 1..len |-> NatToBytes(start + i - 1, 4)] :
     start \in GrowStarts, len \in GrowLens}

\* the first and the last value of each run
TipValues ==
  {NatToBytes(start + k, 4) : start \in GrowStarts, k \in {0, MaxGrowLen - 1}}

\* what is put after a run: values of the run again, and the value that
\* overloads the table
TipBatches == {<<a>> : a \in TipValues} \cup {<<a, b>> : a, b \in TipValues}

GrowHashKinds == {"low", "pair"}

\* DictEncoder<Int32Type> alone, with dictionaries that outgrow the hash
\* table: a long run, then a short batch
NextDictGrow ==
  \/ \E hash_kind \in GrowHashKinds :
       GetEncoder("INT32", "PLAIN_DICTIONARY", hash_kind)
  \/ \E values \in IF puts = 0 THEN GrowBatches ELSE TipBatches : Put(values)
  \/ EncodingCall
  \/ WriteDict

SpecDictGrow == Init /\ [][NextDictGrow]_vars

\* longest batch handed to one put of a RleValueEncoder<BoolType>: runs of
\* eight equal values, each run two bytes of the sink of 1024 bytes; the value
\* after 513 runs makes the encoder write the run that does not fit
MaxRleLen == 4105

RleLens == {MaxRleLen - 1, MaxRleLen}

RleBatches == {[i \in 1..len |-> ((i - 1) \div 8) % 2 = 0] : len \in RleLens}

\* the two encoders that write through an RleEncoder, RleValueEncoder<BoolType>
\* with batches that overflow its sink and DictEncoder<Int32Type>
NextRleSink ==
  \/ GetEncoder("BOOLEAN", "RLE", "low")
  \/ GetEncoder("INT32", "PLAIN_DICTIONARY", "low")
  \/ \E values \in IF ptype = "BOOLEAN"
                   THEN SeqsUpTo({TRUE}, MaxPutLen) \cup RleBatches
                   ELSE DictBatches : Put(values)
  \/ Flush
  \/ EncodingCall

SpecRleSink == Init /\ [][NextRleSink]_vars

\* DeltaBitPackEncoder<Int32Type> and <Int64Type> alone, with batches of more
\* than one block and differences that overflow
NextDelta ==
  \/ \E T \in {"INT32", "INT64"} : GetEncoder(T, "DELTA_BINARY_PACKED", "low")
  \/ \E values \in DeltaBatches(ptype) : Put(values)
  \/ Flush
  \/ EncodingCall

SpecDelta == Init /\ [][NextDelta]_vars

\* DeltaByteArrayEncoder<ByteArrayType> alone, with values that share prefixes
NextDeltaByteArray ==
  \/ GetEncoder("BYTE_ARRAY", "DELTA_BYTE_ARRAY", "low")
  \/ \E values \in WordBatches : Put(values)
  \/ Flush
  \/ EncodingCall

SpecDeltaByteArray == Init /\ [][NextDeltaByteArray]_vars

\* write_page_header on an encoder whose total_values and first_value are the
\* given 64-bit values, and the bytes the page header writer then holds
WritePageHeader(total_values, first_value) ==
  /\ status = "live"
  /\ enc.kind = "DeltaBitPackEncoder"
  /\ \E h \in {write_page_header_of([enc EXCEPT !.first_value = first_value],
                                     total_values)} :
         ret' = Ret("write_page_header",
                    Result(h.enc, "Ok",
                           BitWriter_flush_buffer(h.enc.page_header_writer).bytes,
                           h.write_failed),
                    <<total_values, first_value>>)
  /\ UNCHANGED <<status, ptype, requested, enc, pending, prior, base, seen,
                 puts, flushes, mem_tracker>>

\* the page header of a DeltaBitPackEncoder for every total_values and
\* first_value
NextHeader ==
  \/ \E T \in {"INT32", "INT64"} : GetEncoder(T, "DELTA_BINARY_PACKED", "low")
  \/ \E total_values \in HeaderValues, first_value \in HeaderValues :
       WritePageHeader(total_values, first_value)

SpecHeader == Init /\ [][NextHeader]_vars

\* x.to_string() for a variant x of Type, LogicalType or Repetition
Display(x) ==
  /\ ret' = [op |-> "to_string", enum |-> x.enum, input |-> x, res |-> "Ok",
             value |-> to_string(x)]
  /\ UNCHANGED <<status, ptype, requested, enc, pending, prior, base, seen,
                 puts, flushes, mem_tracker>>

\* s.parse::<E>() for E one of Type, LogicalType, Repetition
FromStr(e, s) ==
  /\ \E r \in {from_str(e, s)} :
         ret' = [op |-> "from_str", enum |-> e, input |-> s, res |-> r.res,
                 value |-> r.value]
  /\ UNCHANGED <<status, ptype, requested, enc, pending, prior, base, seen,
                 puts, flushes, mem_tracker>>

\* the conversions between the enumerations and their names
NextParse ==
  \/ \E e \in ParsedEnums : \E x \in Variants(e) : Display(x)
  \/ \E e \in ParsedEnums, s \in ParseInputs : FromStr(e, s)

SpecParse == Init /\ [][NextParse]_vars

\* ------------------------------------------------------------------------
\* Properties

\* the (encoding, type) pairs get_encoder's table supports
Supported(T, encoding) ==
  CASE encoding \in {"PLAIN", "PLAIN_DICTIONARY", "RLE_DICTIONARY"} -> TRUE
    [] encoding = "RLE" -> T = "BOOLEAN"
    [] encoding = "DELTA_BINARY_PACKED" -> T \in {"INT32", "INT64"}
    [] encoding \in {"DELTA_LENGTH_BYTE_ARRAY", "DELTA_BYTE_ARRAY"} -> T = "BYTE_ARRAY"
    [] OTHER -> FALSE

\* what a new encoder for (T, encoding) returns from flush_buffer after one
\* put of values
FreshFlush(T, encoding, values) ==
  LET fresh == get_encoder(T, encoding, "low").enc
  IN  Encoder_flush_buffer(Encoder_put(fresh, T, values).enc, T).data

\* C1: for PlainEncoder, RleValueEncoder<Bool>, DeltaBitPackEncoder and
\* DeltaLengthByteArrayEncoder, the bytes an Ok flush_buffer returns are the
\* bytes a new encoder of the same kind returns for the values put since the
\* previous flush.
C1_FlushEqualsFresh ==
  (/\ ret.op = "flush_buffer"
   /\ ret.res = "Ok"
   /\ enc.kind \in {"PlainEncoder", "RleValueEncoder", "DeltaBitPackEncoder",
                    "DeltaLengthByteArrayEncoder"})
    => ret.data = FreshFlush(ptype, requested, ret.batch)

\* the per-batch state of an encoder is empty
PerBatchStateEmpty(e) ==
  CASE e.kind = "DeltaBitPackEncoder" ->
         /\ e.total_values = 0
         /\ e.values_in_block = 0
         /\ e.first_value = I64_ZERO
         /\ e.current_value = I64_ZERO
         /\ BitWriterIsEmpty(e.page_header_writer)
         /\ BitWriterIsEmpty(e.bit_writer)
    [] e.kind = "DeltaLengthByteArrayEncoder" -> e.data = <<>>
    [] e.kind = "DictEncoder" -> e.buffered_indices = <<>>
    [] e.kind = "PlainEncoder" -> e.buffer = <<>> /\ BitWriterIsEmpty(e.bit_writer)
    [] OTHER -> TRUE

\* C2: after every flush_buffer that returns Ok the per-batch state of the
\* encoder is empty, in every put/flush round on the same instance.
C2_PerBatchStateEmptyAfterFlush ==
  (ret.op = "flush_buffer" /\ ret.res = "Ok") => PerBatchStateEmpty(enc)

\* a second flush round of a DeltaBitPackEncoder that had values to flush
C2_Witness ==
  /\ ret.op = "flush_buffer"
  /\ ret.res = "Ok"
  /\ enc.kind = "DeltaBitPackEncoder"
  /\ flushes = 2
  /\ Len(ret.batch) = 2

\* the encoder is paired with a physical type its put does not support
MisPaired(e, T) ==
  \/ e.kind = "RleValueEncoder" /\ T # "BOOLEAN"
  \/ e.kind \in {"DeltaLengthByteArrayEncoder", "DeltaByteArrayEncoder"}
       /\ T # "BYTE_ARRAY"

\* C3 (as amended): put on an encoder paired with a physical type it does not
\* support aborts the program with a panic; it never returns, neither Ok nor
\* a General error.
C3_MisPairedPutAborts ==
  (ret.op = "put" /\ MisPaired(enc, ptype)) => (ret.res = "panic" /\ status = "aborted")

\* C3 as stated: such a put returns a General error and never aborts
C3_MisPairedPutReturnsGeneral ==
  (ret.op = "put" /\ MisPaired(enc, ptype)) => (ret.res = "General" /\ status = "live")

\* a put on a DeltaByteArrayEncoder<Int32Type> has been made
C3_Witness ==
  /\ ret.op = "put"
  /\ enc.kind = "DeltaByteArrayEncoder"
  /\ ptype = "INT32"
  /\ status = "aborted"

\* C4 (as amended): get_encoder with an (encoding, type) pair outside the
\* supported table never fails with NotYetImplemented: for RLE,
\* DELTA_LENGTH_BYTE_ARRAY and DELTA_BYTE_ARRAY it returns Ok with an encoder
\* of the requested encoding, and for DELTA_BINARY_PACKED it panics in
\* DeltaBitPackEncoder::new.
C4_UnsupportedPairNotRejected ==
  (/\ ret.op = "get_encoder"
   /\ requested # "BIT_PACKED"
   /\ ~Supported(ptype, requested))
    => IF requested = "DELTA_BINARY_PACKED"
       THEN ret.res = "panic" /\ status = "aborted"
       ELSE ret.res = "Ok" /\ status = "live" /\ Encoder_encoding(enc) = requested

\* C4 as stated: such a request fails with NotYetImplemented
C4_UnsupportedPairIsNotYetImplemented ==
  (/\ ret.op = "get_encoder"
   /\ requested # "BIT_PACKED"
   /\ ~Supported(ptype, requested))
    => (ret.res = "NotYetImplemented" /\ status = "failed")

\* get_encoder has been asked for RLE on INT64
C4_Witness ==
  /\ ret.op = "get_encoder"
  /\ requested = "RLE"
  /\ ptype = "INT64"
  /\ status = "live"

\* C5: get_encoder with the encoding id BIT_PACKED returns NotYetImplemented
\* for every physical type, constructs no encoder and leaves the memory
\* tracker as it was.
C5_BitPackedRejected ==
  (ret.op = "get_encoder" /\ requested = "BIT_PACKED")
    => /\ ret.res = "NotYetImplemented"
       /\ status = "failed"
       /\ enc = <<>>
       /\ mem_tracker = 0

\* get_encoder has been asked for BIT_PACKED on INT96
C5_Witness ==
  /\ ret.op = "get_encoder"
  /\ requested = "BIT_PACKED"
  /\ ptype = "INT96"
  /\ status = "failed"

\* the DELTA_BINARY_PACKED page header of an empty batch: blockSize 128,
\* numMiniBlocks 4, totalValueCount 0, firstValue 0
EmptyDeltaFrame == <<128, 1, 4, 0, 0>>

\* the bytes that encode a zero-length value stream
EmptyStream(e) ==
  CASE e.kind = "PlainEncoder" -> <<>>
    [] e.kind = "DictEncoder" -> <<0>>
    [] e.kind = "RleValueEncoder" -> <<0, 0, 0, 0>>
    [] e.kind = "DeltaBitPackEncoder" -> EmptyDeltaFrame
    [] e.kind = "DeltaLengthByteArrayEncoder" -> EmptyDeltaFrame
    [] e.kind = "DeltaByteArrayEncoder" -> EmptyDeltaFrame \o EmptyDeltaFrame

\* C6 (as amended): flush_buffer on an encoder that has never received a put
\* returns Ok and the bytes of a zero-length value stream for PlainEncoder,
\* DictEncoder, DeltaBitPackEncoder<Int32/Int64>,
\* DeltaLengthByteArrayEncoder<ByteArray> and DeltaByteArrayEncoder<ByteArray>
\* (for DELTA_BINARY_PACKED the header with totalValueCount = 0 and no block
\* bytes); on RleValueEncoder<Bool> it panics on the assertion that the RLE
\* encoder is initialized.
C6_FlushWithoutPut ==
  (ret.op = "flush_buffer" /\ puts = 0 /\ Supported(ptype, requested))
    => IF enc.kind = "RleValueEncoder"
       THEN ret.res = "panic" /\ status = "aborted"
       ELSE ret.res = "Ok" /\ status = "live" /\ ret.data = EmptyStream(enc)

\* C6 as stated: it returns Ok for RleValueEncoder<Bool> as well
C6_FlushWithoutPutIsOk ==
  (ret.op = "flush_buffer" /\ puts = 0 /\ Supported(ptype, requested))
    => (ret.res = "Ok" /\ status = "live" /\ ret.data = EmptyStream(enc))

\* a new RleValueEncoder<Bool> has been flushed
C6_Witness ==
  /\ ret.op = "flush_buffer"
  /\ puts = 0
  /\ flushes = 1
  /\ enc.kind = "RleValueEncoder"
  /\ ptype = "BOOLEAN"

\* C7: whenever a bit-writer write made during put or flush_buffer reports
\* failure, the put or flush_buffer returns an error instead of Ok.
C7_NoWriteFailureSwallowed ==
  (ret.op \in {"put", "flush_buffer"} /\ ret.write_failed) => ret.res # "Ok"

\* the encoding id encoding() has to report for an encoder obtained by
\* requesting `encoding` from get_encoder
ReportedEncoding(encoding) ==
  IF encoding = "RLE_DICTIONARY" THEN "PLAIN_DICTIONARY" ELSE encoding

\* C8: encoding() returns the same identifier in every reachable state of an
\* encoder - the encoding requested from the factory, PLAIN_DICTIONARY also
\* when RLE_DICTIONARY was requested - and changes no state.
C8_EncodingConstant ==
  /\ [](status = "live" => Encoder_encoding(enc) = ReportedEncoding(requested))
  /\ [](ret.op = "encoding" => ret.res = ReportedEncoding(requested))
  /\ [][ret'.op = "encoding" => enc' = enc /\ mem_tracker' = mem_tracker]_vars

\* encoding() has been called on a DictEncoder requested as RLE_DICTIONARY,
\* after a put and a flush
C8_Witness ==
  /\ ret.op = "encoding"
  /\ requested = "RLE_DICTIONARY"
  /\ ret.res = "PLAIN_DICTIONARY"
  /\ puts > 0
  /\ flushes > 0

\* C9: DictEncoder de-duplicates exactly: the dictionary is the list of the
\* distinct values put so far in first-seen order (num_entries() = k), no two
\* entries are equal, and the index buffered for every value put since the
\* last flush is the index of that value in the dictionary.
C9_DictDeduplicates ==
  (status = "live" /\ enc.kind = "DictEncoder")
    => /\ enc.uniques = seen
       /\ num_entries(enc) = Cardinality({seen[i] : i \in 1..Len(seen)})
       /\ \A i, j \in 1..num_entries(enc) :
            enc.uniques[i] = enc.uniques[j] => i = j
       /\ Len(enc.buffered_indices) = Len(pending)
       /\ \A i \in 1..Len(pending) :
            /\ enc.buffered_indices[i] \in 0..(num_entries(enc) - 1)
            /\ enc.uniques[enc.buffered_indices[i] + 1] = pending[i]

\* two values whose hashes collide have been put, the first one again after
\* the second
C9_Witness ==
  /\ status = "live"
  /\ enc.kind = "DictEncoder"
  /\ enc.hash_kind = "zero"
  /\ num_entries(enc) = 2
  /\ enc.buffered_indices = <<0, 1, 0>>

\* C10: the dictionary of a DictEncoder survives write_dict and flush_buffer:
\* write_dict changes no encoder state and two consecutive calls return the
\* same bytes, an Ok flush_buffer clears the buffered index list and nothing
\* else, every call leaves the entries already in the dictionary at their
\* indices (num_entries() never decreases), and a put of a value already in
\* the dictionary buffers the index it had.
C10_DictionarySurvives ==
  [][(status = "live" /\ enc.kind = "DictEncoder" /\ status' = "live")
       => /\ num_entries(enc') >= num_entries(enc)
          /\ SubSeq(enc'.uniques, 1, num_entries(enc)) = enc.uniques
          /\ ret'.op = "write_dict" =>
               /\ enc' = enc
               /\ ret.op = "write_dict" => ret'.data = ret.data
          /\ (ret'.op = "flush_buffer" /\ ret'.res = "Ok") =>
               enc' = [enc EXCEPT !.buffered_indices = <<>>]
          /\ ret'.op = "put" =>
               \A i \in 1..Len(pending') : \A k \in 1..num_entries(enc) :
                 enc.uniques[k] = pending'[i] => enc'.buffered_indices[i] = k - 1
    ]_vars

\* the second of two values put in a first batch has been put again, alone,
\* after a flush, and flushed: it was written with its index 1
C10_Witness ==
  /\ status = "live"
  /\ enc.kind = "DictEncoder"
  /\ ret.op = "flush_buffer"
  /\ puts = 2
  /\ flushes = 2
  /\ Len(seen) = 2
  /\ ret.batch = <<seen[2]>>
  /\ ret.data = <<1, 2, 1>>

\* the least k with 2^k >= n, for n >= 1
CeilLog2(n) == CHOOSE k \in 0..30 : Pow2(k) >= n /\ \A j \in 0..(k - 1) : Pow2(j) < n

\* the width the first byte of the index stream of a dictionary of n entries
\* has to announce
AnnouncedWidth(n) ==
  CASE n = 0 -> 0
    [] n = 1 -> 1
    [] OTHER -> CeilLog2(n)

\* C11: the bytes an Ok DictEncoder flush_buffer returns start with one byte
\* equal to bit_width() at flush time - 0 for no entry, 1 for one entry,
\* ceil(log2(n)) for n >= 2 entries - and every buffered index is below
\* 2^bit_width, so that it fits the announced width.
C11_IndexWidthAnnounced ==
  (status = "live" /\ enc.kind = "DictEncoder")
    => /\ bit_width(enc) = AnnouncedWidth(num_entries(enc))
       /\ \A i \in 1..Len(enc.buffered_indices) :
            enc.buffered_indices[i] < Pow2(bit_width(enc))
       /\ (ret.op = "flush_buffer" /\ ret.res = "Ok")
            => /\ Len(ret.data) >= 1
               /\ ret.data[1] = AnnouncedWidth(num_entries(enc))

\* a batch of five values has been flushed from a dictionary of five entries:
\* the first byte announces three bits
C11_Witness ==
  /\ status = "live"
  /\ enc.kind = "DictEncoder"
  /\ ret.op = "flush_buffer"
  /\ ret.res = "Ok"
  /\ num_entries(enc) = 5
  /\ Len(ret.batch) = 5
  /\ ret.data[1] = 3

\* n is a power of two
IsPowerOfTwo(n) == \E k \in 0..30 : Pow2(k) = n

\* C12 (as amended): bit_width() is the position of the highest set bit of
\* num_entries (least-significant bit at position 1, 0 when no bit is set)
\* except when num_entries is a power of two greater than 1, where it is one
\* less: ceil(log2(num_entries)) and the highest-set-bit position agree on
\* exactly the other counts.
C12_BitWidthAndHighestSetBit ==
  (status = "live" /\ enc.kind = "DictEncoder")
    => bit_width(enc) =
         IF num_entries(enc) > 1 /\ IsPowerOfTwo(num_entries(enc))
         THEN HighestSetBit(U64(num_entries(enc))) - 1
         ELSE HighestSetBit(U64(num_entries(enc)))

\* C12 as stated: bit_width() is the position of the highest set bit of
\* num_entries for every num_entries
C12_BitWidthIsHighestSetBit ==
  (status = "live" /\ enc.kind = "DictEncoder")
    => bit_width(enc) = HighestSetBit(U64(num_entries(enc)))

\* a dictionary of four entries: two bits, the highest set bit of 4 is the third
C12_Witness ==
  /\ status = "live"
  /\ enc.kind = "DictEncoder"
  /\ num_entries(enc) = 4
  /\ bit_width(enc) = 2

RECURSIVE LeToNat(_)
\* the number a little-endian byte sequence stands for
LeToNat(bs) == IF bs = <<>> THEN 0 ELSE Head(bs) + 256 * LeToNat(Tail(bs))

RECURSIVE PlainOffset(_, _, _)
\* where value i starts in the PLAIN layout of values, each value preceded by
\* a length of `header` bytes
PlainOffset(values, i, header) ==
  IF i = 1 THEN 0
  ELSE PlainOffset(values, i - 1, header) + header + Len(values[i - 1])

\* the bytes of a value of a fixed-width physical type
ValueWidth(T) ==
  CASE T \in {"INT32", "FLOAT"} -> 4
    [] T \in {"INT64", "DOUBLE"} -> 8
    [] T = "INT96" -> 12

\* C13: for the non-boolean types the bytes an Ok PlainEncoder flush_buffer
\* returns are the values put since the last flush back to back in put
\* order: a fixed-width value as its 4, 8 or 12 little-endian bytes, a
\* BYTE_ARRAY value as a 4-byte little-endian length and that many data
\* bytes, a FIXED_LEN_BYTE_ARRAY value as its data bytes alone.
C13_PlainLayout ==
  (/\ ret.op = "flush_buffer"
   /\ ret.res = "Ok"
   /\ enc.kind = "PlainEncoder"
   /\ ptype # "BOOLEAN")
    => \E header \in {IF ptype = "BYTE_ARRAY" THEN 4 ELSE 0} :
         /\ Len(ret.data) = PlainOffset(ret.batch, Len(ret.batch) + 1, header)
         /\ ptype \notin {"BYTE_ARRAY", "FIXED_LEN_BYTE_ARRAY"}
              => Len(ret.data) = ValueWidth(ptype) * Len(ret.batch)
         /\ \A i \in 1..Len(ret.batch) :
              \E off \in {PlainOffset(ret.batch, i, header)} :
                /\ header = 4
                     => LeToNat(SubSeq(ret.data, off + 1, off + 4)) = Len(ret.batch[i])
                /\ SubSeq(ret.data, off + header + 1, off + header + Len(ret.batch[i]))
                     = ret.batch[i]

\* two BYTE_ARRAY values of different lengths, put by two calls, have been
\* flushed by a PlainEncoder
C13_Witness ==
  /\ ret.op = "flush_buffer"
  /\ ret.res = "Ok"
  /\ enc.kind = "PlainEncoder"
  /\ ptype = "BYTE_ARRAY"
  /\ puts = 2
  /\ ret.batch = <<<<97, 98>>, <<97>>>>
  /\ ret.data = <<2, 0, 0, 0, 97, 98, 1, 0, 0, 0, 97>>

\* C14: for every number n of booleans put since the last flush, over any
\* number of put calls and also beyond the 2048 bits of the bit writer, an Ok
\* PlainEncoder<Bool> flush_buffer returns ceil(n / 8) bytes in which value i
\* is bit (i mod 8) of byte (i div 8), the unused bits of the last byte
\* being 0.
C14_BoolBitsPacked ==
  (/\ ret.op = "flush_buffer"
   /\ ret.res = "Ok"
   /\ enc.kind = "PlainEncoder"
   /\ ptype = "BOOLEAN")
    => /\ Len(ret.data) = CeilDiv(Len(ret.batch), 8)
       /\ \A i \in 0..(Len(ret.batch) - 1) :
            BitAt(ret.data, i) = IF ret.batch[i + 1] THEN 1 ELSE 0
       /\ \A i \in Len(ret.batch)..(8 * Len(ret.data) - 1) : BitAt(ret.data, i) = 0

\* ------------------------------------------------------------------------
\* Reading a DELTA_BINARY_PACKED frame back, as the format describes it:
\* header (block size, mini blocks per block, total value count as ULEB128,
\* first value as zig-zag ULEB128), then blocks (min delta as zig-zag
\* ULEB128, one bit-width byte per mini block, the mini blocks that hold
\* values, each of 32 * width bits).

\* index of the last byte of the ULEB128 integer that starts at data[pos];
\* 0 when it does not end within ten bytes
VlqEnd(data, pos) ==
  LET ends == {k \in pos..Min(Len(data), pos + 9) : data[k] < 128}
  IN  IF ends = {} THEN 0 ELSE CHOOSE k \in ends : \A j \in ends : k <= j

\* the u64 whose ULEB128 bytes are data[lo..hi]
VlqU64(data, lo, hi) ==
  LET bit(i) == IF i \div 7 <= hi - lo
                THEN (data[lo + (i \div 7)] \div Pow2(i % 7)) % 2 ELSE 0
      byte(k) == bit(8 * k) + 2 * bit(8 * k + 1) + 4 * bit(8 * k + 2)
                   + 8 * bit(8 * k + 3) + 16 * bit(8 * k + 4)
                   + 32 * bit(8 * k + 5) + 64 * bit(8 * k + 6)
                   + 128 * bit(8 * k + 7)
  IN  [k \in 1..8 |-> byte(k - 1)]

\* the ULEB128 integer at data[pos]: [ok, value, next]
ReadVlq(data, pos) ==
  LET read(e) ==
        IF pos > Len(data) \/ e = 0
        THEN [ok |-> FALSE, value |-> U64(0), next |-> pos]
        ELSE [ok |-> TRUE, value |-> VlqU64(data, pos, e), next |-> e + 1]
  IN  read(VlqEnd(data, pos))

\* the i64 that zig-zag encodes to u: (u >> 1) ^ -(u & 1)
UnZigZag(u) ==
  LET s == u[1] % 2
      bit(i) == ((IF i < 63 THEN BitAt(u, i + 1) ELSE 0) + s) % 2
      byte(k) == bit(8 * k) + 2 * bit(8 * k + 1) + 4 * bit(8 * k + 2)
                   + 8 * bit(8 * k + 3) + 16 * bit(8 * k + 4)
                   + 32 * bit(8 * k + 5) + 64 * bit(8 * k + 6)
                   + 128 * bit(8 * k + 7)
  IN  [k \in 1..8 |-> byte(k - 1)]

\* a u64 below 2^24 as a number, -1 for a larger one
SmallNat(u) ==
  IF \A k \in 4..8 : u[k] = 0 THEN u[1] + 256 * u[2] + 65536 * u[3] ELSE -1

\* the sum of the first n of the four bit widths
WidthSum(widths, n) ==
  (IF n >= 1 THEN widths[1] ELSE 0) + (IF n >= 2 THEN widths[2] ELSE 0)
    + (IF n >= 3 THEN widths[3] ELSE 0) + (IF n >= 4 THEN widths[4] ELSE 0)

RECURSIVE ReadBlocks(_, _, _, _)
\* the blocks that hold `remaining` deltas, read from data[pos] on; a block
\* is [min_delta, bit_widths, body], body being the index of its first mini
\* block.  Only the mini blocks that hold deltas are present.
ReadBlocks(data, pos, remaining, acc) ==
  IF Len(acc) < 0 \/ remaining <= 0
  THEN [ok |-> TRUE, blocks |-> acc, next |-> pos]
  ELSE LET bad == [ok |-> FALSE, blocks |-> acc, next |-> pos]
           body(md, widths, size) ==
             IF md.next + 3 + size > Len(data) THEN bad
             ELSE ReadBlocks(data, md.next + 4 + size, remaining - 128,
                             Append(acc, [min_delta |-> UnZigZag(md.value),
                                          bit_widths |-> widths,
                                          body |-> md.next + 4]))
           widths(md) ==
             IF ~md.ok \/ md.next + 3 > Len(data) THEN bad
             ELSE body(md, SubSeq(data, md.next, md.next + 3),
                       4 * WidthSum(SubSeq(data, md.next, md.next + 3),
                                    Min(4, CeilDiv(remaining, 32))))
       IN  widths(ReadVlq(data, pos))

\* the frame that starts at data[start]; next is the index after its last byte
DeltaFrame(data, start) ==
  LET bad == [ok |-> FALSE, block_size |-> 0, num_mini_blocks |-> 0,
              total |-> 0, first |-> I64_ZERO, header_end |-> start,
              blocks |-> <<>>, next |-> start]
      frame(bs, mb, tv, fv, b) ==
        [ok |-> b.ok, block_size |-> SmallNat(bs.value),
         num_mini_blocks |-> SmallNat(mb.value), total |-> SmallNat(tv.value),
         first |-> UnZigZag(fv.value), header_end |-> fv.next,
         blocks |-> b.blocks, next |-> b.next]
      blocks(bs, mb, tv, fv) ==
        IF ~fv.ok \/ SmallNat(tv.value) < 0 THEN bad
        ELSE frame(bs, mb, tv, fv,
                   ReadBlocks(data, fv.next, SmallNat(tv.value) - 1, <<>>))
      first(bs, mb, tv) == IF ~tv.ok THEN bad ELSE blocks(bs, mb, tv, ReadVlq(data, tv.next))
      total(bs, mb) == IF ~mb.ok THEN bad ELSE first(bs, mb, ReadVlq(data, mb.next))
      mini(bs) == IF ~bs.ok THEN bad ELSE total(bs, ReadVlq(data, bs.next))
  IN  mini(ReadVlq(data, start))

RECURSIVE AddCarry(_, _, _, _)
AddCarry(a, b, i, carry) ==
  IF i > Len(a) THEN <<>>
  ELSE <<(a[i] + b[i] + carry) % 256>>
         \o AddCarry(a, b, i + 1, (a[i] + b[i] + carry) \div 256)

\* a.wrapping_add(b) at the width of a and b
WrappingAdd(a, b) == AddCarry(a, b, 1, 0)

\* the w bits of data from bit `bitpos` on (0 = the lowest bit of data[1]),
\* as u64
PackedAt(data, bitpos, w) ==
  LET bit(i) == IF i < w THEN BitAt(data, bitpos + i) ELSE 0
      byte(k) == bit(8 * k) + 2 * bit(8 * k + 1) + 4 * bit(8 * k + 2)
                   + 8 * bit(8 * k + 3) + 16 * bit(8 * k + 4)
                   + 32 * bit(8 * k + 5) + 64 * bit(8 * k + 6)
                   + 128 * bit(8 * k + 7)
  IN  [k \in 1..8 |-> byte(k - 1)]

\* delta d (0-based) of a frame: min delta + packed value, as i64
DeltaAt(data, frame, d) ==
  LET at(blk, m, j) ==
        WrappingAdd(blk.min_delta,
                    PackedAt(data,
                             8 * (blk.body - 1 + 4 * WidthSum(blk.bit_widths, m))
                               + j * blk.bit_widths[m + 1],
                             blk.bit_widths[m + 1]))
  IN  at(frame.blocks[(d \div 128) + 1], (d % 128) \div 32, d % 32)

\* flush_buffer of a DeltaBitPackEncoder has returned Ok
DeltaFlushed ==
  /\ ret.op = "flush_buffer"
  /\ ret.res = "Ok"
  /\ enc.kind = "DeltaBitPackEncoder"

\* C15: flush_buffer of a DeltaBitPackEncoder returns a header of block size
\* 128, 4 mini blocks, the number of values put since the previous flush and
\* the first of them, followed by exactly ceil((count - 1) / 128) blocks and
\* nothing else; one value gives the header alone.
C15_DeltaHeaderAndBlocks ==
  DeltaFlushed =>
    LET holds(f) ==
          /\ f.ok
          /\ f.block_size = 128
          /\ f.num_mini_blocks = 4
          /\ f.total = Len(ret.batch)
          /\ f.next = Len(ret.data) + 1
          /\ f.total >= 1 =>
               /\ f.first = as_i64(ptype, ret.batch, 1)
               /\ Len(f.blocks) = CeilDiv(f.total - 1, 128)
          /\ f.total = 1 => f.header_end = Len(ret.data) + 1
    IN  holds(DeltaFrame(ret.data, 1))

\* two puts, 259 values, three blocks
C15_Witness ==
  /\ DeltaFlushed
  /\ puts = 2
  /\ Len(ret.batch) = 2 * MaxRampLen - 1
  /\ Len(DeltaFrame(ret.data, 1).blocks) = 3
  /\ DeltaFrame(ret.data, 1).total = 2 * MaxRampLen - 1
  /\ DeltaFrame(ret.data, 1).next = Len(ret.data) + 1

\* the width in bytes of the values of the encoder's type
NativeWidth == IF ptype = "INT32" THEN 4 ELSE 8

\* C16: the values rebuilt from a flushed DELTA_BINARY_PACKED frame, the
\* first value followed by running wrapping additions at the native width of
\* (min delta + packed value), are the values put.  Stated value by value:
\* the first values agree and every value put is its predecessor plus the
\* delta read back.
C16_DeltaRoundTrip ==
  (DeltaFlushed /\ Len(ret.batch) >= 1) =>
    LET holds(f) ==
          /\ f.ok
          /\ f.total = Len(ret.batch)
          /\ Truncate(f.first, NativeWidth) = ret.batch[1]
          /\ \A k \in 2..Len(ret.batch) :
               ret.batch[k] =
                 WrappingAdd(ret.batch[k - 1],
                             Truncate(DeltaAt(ret.data, f, k - 2), NativeWidth))
    IN  holds(DeltaFrame(ret.data, 1))

\* [i32::MIN, i32::MAX]: the delta read back is -1
C16_Witness ==
  /\ DeltaFlushed
  /\ ptype = "INT32"
  /\ ret.batch = <<I32_MIN, I32_MAX>>
  /\ DeltaAt(ret.data, DeltaFrame(ret.data, 1), 0) = [i \in 1..8 |-> 255]
  /\ WrappingAdd(I32_MIN, <<255, 255, 255, 255>>) = I32_MAX

\* the batch [1, 2, ..., N] of INT32 values, N >= 1
IsRamp(values) ==
  /\ Len(values) >= 1
  /\ \A i \in 1..Len(values) : values[i] = NatToBytes(i, 4)

\* bytes of a frame of a ramp that do not depend on N: the header and the
\* min delta and bit widths of one block
RampOverhead == MAX_PAGE_HEADER_WRITER_SIZE + 1 + DEFAULT_NUM_MINI_BLOCKS

\* C17: the frame flushed for the INT32 batch [1, 2, ..., N] gives bit width
\* 0 to every mini block of every block, holds no packed bits (every block is
\* its min delta and its four bit widths) and is at most a constant plus N / 8
\* bytes long.
C17_RampWidthsZero ==
  (DeltaFlushed /\ ptype = "INT32" /\ IsRamp(ret.batch)) =>
    LET holds(f) ==
          /\ f.ok
          /\ f.next = Len(ret.data) + 1
          /\ \A b \in 1..Len(f.blocks) :
               /\ f.blocks[b].bit_widths = <<0, 0, 0, 0>>
               /\ f.blocks[b].min_delta = U64(1)
               /\ (IF b < Len(f.blocks) THEN f.blocks[b + 1].body - 5 ELSE f.next)
                    = f.blocks[b].body
          /\ 8 * Len(ret.data) <= 8 * RampOverhead + Len(ret.batch)
    IN  holds(DeltaFrame(ret.data, 1))

\* the INT32 values that a DELTA_BINARY_PACKED frame holds are `lengths`
FrameHolds(data, f, lengths) ==
  /\ f.ok
  /\ f.block_size = 128
  /\ f.num_mini_blocks = 4
  /\ f.total = Len(lengths)
  /\ Len(lengths) >= 1 => Truncate(f.first, 4) = NatToBytes(lengths[1], 4)
  /\ \A k \in 2..Len(lengths) :
       NatToBytes(lengths[k], 4) =
         WrappingAdd(NatToBytes(lengths[k - 1], 4), Truncate(DeltaAt(data, f, k - 2), 4))

\* C18: flush_buffer of a DeltaLengthByteArrayEncoder returns the
\* DELTA_BINARY_PACKED frame of the lengths of the values put since the last
\* flush, in put order, followed at once by the bytes of those values, and
\* leaves the data list empty.
C18_LengthsThenData ==
  (ret.op = "flush_buffer" /\ ret.res = "Ok"
     /\ enc.kind = "DeltaLengthByteArrayEncoder") =>
    LET holds(f) ==
          /\ FrameHolds(ret.data, f, [i \in 1..Len(ret.batch) |-> Len(ret.batch[i])])
          /\ SubSeq(ret.data, f.next, Len(ret.data)) = Concat(ret.batch)
          /\ enc.data = <<>>
    IN  holds(DeltaFrame(ret.data, 1))

\* "ab", "a": lengths 2, 1 (first value 2, min delta -1), then the bytes
C18_Witness ==
  /\ ret.op = "flush_buffer"
  /\ ret.res = "Ok"
  /\ enc.kind = "DeltaLengthByteArrayEncoder"
  /\ ret.batch = <<<<97, 98>>, <<97>>>>
  /\ ret.data = <<128, 1, 4, 2, 4, 1, 0, 0, 0, 0, 97, 98, 97>>
  /\ enc.data = <<>>

\* the length of the longest common prefix of two byte sequences
LCP(a, b) ==
  CHOOSE m \in 0..Min(Len(a), Len(b)) :
    /\ SubSeq(a, 1, m) = SubSeq(b, 1, m)
    /\ m = Min(Len(a), Len(b)) \/ a[m + 1] # b[m + 1]

\* the value put immediately before batch[k], `first` being the one put
\* before batch[1]
Preceding(first, batch, k) == IF k = 1 THEN first ELSE batch[k - 1]

PrefixLengths(first, batch) ==
  [k \in 1..Len(batch) |-> LCP(Preceding(first, batch, k), batch[k])]

Suffixes(first, batch) ==
  [k \in 1..Len(batch) |->
     SubSeq(batch[k], LCP(Preceding(first, batch, k), batch[k]) + 1, Len(batch[k]))]

\* data is the frame of the prefix lengths of batch followed by the suffix
\* frame (the frame of the suffix lengths, then the suffix bytes)
PrefixThenSuffix(data, first, batch) ==
  LET suffix(f1, f2) ==
        /\ FrameHolds(data, f1, PrefixLengths(first, batch))
        /\ FrameHolds(data, f2, [k \in 1..Len(batch) |-> Len(Suffixes(first, batch)[k])])
        /\ SubSeq(data, f2.next, Len(data)) = Concat(Suffixes(first, batch))
      prefix(f1) == suffix(f1, DeltaFrame(data, f1.next))
  IN  prefix(DeltaFrame(data, 1))

\* C19: every value put into a DeltaByteArrayEncoder is split at the length
\* of its longest common prefix with the value put immediately before it (0
\* for the first value of a new encoder), that prefix and the suffix make up
\* the value again, and flush_buffer returns the frame of the prefix lengths
\* followed by the suffix frame.
C19_PrefixAndSuffix ==
  [][(/\ status = "live"
      /\ enc.kind = "DeltaByteArrayEncoder"
      /\ flushes' = flushes + 1
      /\ ret'.res = "Ok")
       => /\ PrefixThenSuffix(ret'.data, prior, pending)
          /\ \A k \in 1..Len(pending) :
               /\ PrefixLengths(prior, pending)[k]
                    <= Min(Len(Preceding(prior, pending, k)), Len(pending[k]))
               /\ SubSeq(Preceding(prior, pending, k), 1, PrefixLengths(prior, pending)[k])
                    \o Suffixes(prior, pending)[k] = pending[k]
          /\ (flushes = 0 /\ pending # <<>>) => PrefixLengths(prior, pending)[1] = 0]_vars

\* "axis", "axle", "bye" on a new encoder: prefix lengths 0, 2, 0 (first
\* value 0, min delta -2, 3 bits each), suffix lengths 4, 2, 3 (first value
\* 4, min delta -2, 2 bits each), suffixes "axis", "le", "bye"
C19_Witness ==
  /\ ret.op = "flush_buffer"
  /\ ret.res = "Ok"
  /\ enc.kind = "DeltaByteArrayEncoder"
  /\ flushes = 1
  /\ ret.batch = <<<<97, 120, 105, 115>>, <<97, 120, 108, 101>>, <<98, 121, 101>>>>
  /\ ret.data = <<128, 1, 4, 3, 0, 3, 3, 0, 0, 0, 4>> \o Zeros(11)
                  \o <<128, 1, 4, 3, 8, 3, 2, 0, 0, 0, 12>> \o Zeros(7)
                  \o <<97, 120, 105, 115, 108, 101, 98, 121, 101>>

\* C20: `previous` does not outlive flush_buffer: every batch flushed by a
\* DeltaByteArrayEncoder is encoded as on a new encoder, its first value with
\* prefix length 0 and its whole content as suffix, the following values
\* against the value before them (also across put calls).
C20_PreviousClearedByFlush ==
  (ret.op = "flush_buffer" /\ ret.res = "Ok" /\ enc.kind = "DeltaByteArrayEncoder")
    => PrefixThenSuffix(ret.data, <<>>, ret.batch)

\* the strings the claim lets from_str accept for an enumeration
AcceptedNames(e) ==
  {to_string(x) : x \in Variants(e)} \cup (IF e = "Type" THEN {"BINARY"} ELSE {})

\* C21: parsing what to_string gives for a variant of Type, LogicalType or
\* Repetition returns that variant; "BINARY" parses to Type::BYTE_ARRAY; a
\* string that is no accepted name gives an error and no variant.
C21_ParseInvertsDisplay ==
  ret.op = "from_str" =>
    /\ \A x \in Variants(ret.enum) :
         ret.input = to_string(x) => (ret.res = "Ok" /\ ret.value = x)
    /\ (ret.enum = "Type" /\ ret.input = "BINARY")
         => /\ ret.res = "Ok"
            /\ ret.value \in Variants("Type")
            /\ to_string(ret.value) = "BYTE_ARRAY"
    /\ ret.input \notin AcceptedNames(ret.enum)
         => (ret.res = "General" /\ ret.value \notin Variants(ret.enum))

\* LogicalType::INTERVAL, the last variant, parsed back from its name
C21_Witness ==
  /\ ret.op = "from_str"
  /\ ret.enum = "LogicalType"
  /\ ret.input = to_string([enum |-> "LogicalType", ord |-> 23])
  /\ ret.input = "INTERVAL"
  /\ ret.res = "Ok"
  /\ ret.value = [enum |-> "LogicalType", ord |-> 23]

\* the encoders the claim about split batches names
SplitKinds ==
  {"DeltaBitPackEncoder", "DeltaLengthByteArrayEncoder", "DeltaByteArrayEncoder",
   "PlainEncoder"}

\* what flush_buffer returns after one put of all of `values` on encoder e
OnePutFlush(e, T, values) ==
  LET flush(p) == IF p.res # "Ok" THEN p ELSE Encoder_flush_buffer(p.enc, T)
  IN  flush(Encoder_put(e, T, values))

\* C22: however a batch was split over put calls (empty puts included),
\* flush_buffer of a DeltaBitPackEncoder, DeltaLengthByteArrayEncoder,
\* DeltaByteArrayEncoder or PlainEncoder returns the bytes that one put of the
\* whole batch followed by flush_buffer returns on the same encoder.
C22_SplitPutsSameBytes ==
  [][(/\ status = "live"
      /\ enc.kind \in SplitKinds
      /\ flushes' = flushes + 1
      /\ ret'.res = "Ok")
       => /\ OnePutFlush(base, ptype, pending).res = "Ok"
          /\ OnePutFlush(base, ptype, pending).data = ret'.data]_vars

\* two puts of MaxPutLen values each on a new DeltaByteArrayEncoder, then one
\* flush_buffer: the bytes are those of the whole batch
C22_Witness ==
  /\ ret.op = "flush_buffer"
  /\ ret.res = "Ok"
  /\ enc.kind = "DeltaByteArrayEncoder"
  /\ puts = 2
  /\ flushes = 1
  /\ Len(ret.batch) = 2 * MaxPutLen
  /\ ret.batch[MaxPutLen] = ret.batch[2 * MaxPutLen]
  /\ PrefixThenSuffix(ret.data, <<>>, ret.batch)

\* C23: in a DeltaBitPackEncoder values_in_block is below block_size whenever
\* a call has returned: it is the number of deltas put since the last flush
\* modulo block_size, the full blocks are in the bit writer as soon as they
\* are full, and the assertion at the end of flush_block_values never fails.
C23_BlockNeverOverfull ==
  /\ (requested = "DELTA_BINARY_PACKED" /\ ptype \in {"INT32", "INT64"})
       => status # "aborted"
  /\ (status = "live" /\ enc.kind = "DeltaBitPackEncoder") =>
    /\ ret.res # "panic"
    /\ enc.values_in_block < enc.block_size
    /\ enc.values_in_block =
         IF pending = <<>> THEN 0 ELSE (Len(pending) - 1) % enc.block_size
    /\ BitWriterIsEmpty(enc.bit_writer) <=> Len(pending) - 1 < enc.block_size

\* a put that brings the block to exactly block_size deltas: the block is in
\* the bit writer when put returns
C23_Witness ==
  /\ status = "live"
  /\ enc.kind = "DeltaBitPackEncoder"
  /\ ret.op = "put"
  /\ ret.res = "Ok"
  /\ Len(pending) = DEFAULT_BLOCK_SIZE + 1
  /\ enc.values_in_block = 0
  /\ ~BitWriterIsEmpty(enc.bit_writer)

\* delta d (0-based) of the flushed batch, as put computes it
BatchDelta(d) ==
  subtract(ptype, as_i64(ptype, ret.batch, d + 2), as_i64(ptype, ret.batch, d + 1))

\* the number of deltas that mini block m (1-based) of block b (1-based) of a
\* frame of `total` values holds
DeltasIn(total, b, m) ==
  Max(0, Min(32, (total - 1) - 128 * (b - 1) - 32 * (m - 1)))

\* the packed value at position j (0-based) of mini block m of a block
PackedIn(data, blk, m, j) ==
  PackedAt(data,
           8 * (blk.body - 1 + 4 * WidthSum(blk.bit_widths, m - 1))
             + j * blk.bit_widths[m],
           blk.bit_widths[m])

\* the layout of block b of frame f, the bit widths of the mini blocks
\* without deltas left aside
BlockHoldsDeltas(f, b) ==
  /\ \E d \in (128 * (b - 1))..(Min(128 * b, f.total - 1) - 1) :
       f.blocks[b].min_delta = BatchDelta(d)
  /\ \A d \in (128 * (b - 1))..(Min(128 * b, f.total - 1) - 1) :
       ~SignedLess(BatchDelta(d), f.blocks[b].min_delta)
  /\ \A m \in 1..4 :
       \A j \in DeltasIn(f.total, b, m)..31 :
         DeltasIn(f.total, b, m) >= 1
           => PackedIn(ret.data, f.blocks[b], m, j) = U64(0)

\* C24: every block of a flushed frame is its min delta, four bit-width bytes
\* and its mini blocks: the min delta is the least of the deltas of the
\* block, a mini block with deltas takes 32 * width bits, the values after
\* its last delta being zeros, and a mini block without deltas takes no bits
\* and has bit width 0, on a reused encoder too.
C24_BlockLayout ==
  DeltaFlushed =>
    LET holds(f) ==
          /\ f.ok
          /\ f.total = Len(ret.batch)
          /\ f.next = Len(ret.data) + 1
          /\ \A b \in 1..Len(f.blocks) :
               /\ BlockHoldsDeltas(f, b)
               /\ \A m \in 1..4 :
                    DeltasIn(f.total, b, m) = 0 => f.blocks[b].bit_widths[m] = 0
    IN  holds(DeltaFrame(ret.data, 1))

\* the widest bit width of a mini block of the encoder's type
MaxBitWidth == 8 * NativeWidth

\* what put_value is handed for delta d of a block, as the claim states it
PackedOf(d, min_delta) == subtract_u64(ptype, BatchDelta(d), min_delta)

\* mini block m of block b of frame f holds its n >= 1 deltas without loss
MiniBlockFits(f, b, m, n) ==
  LET first == 128 * (b - 1) + 32 * (m - 1)
      fits(blk, w) ==
        /\ w <= MaxBitWidth
        /\ \E j \in 0..(n - 1) :
             w = num_required_bits(PackedOf(first + j, blk.min_delta))
        /\ \A j \in 0..(n - 1) :
             /\ HighestSetBit(PackedOf(first + j, blk.min_delta)) <= w
             /\ PackedIn(ret.data, blk, m, j) = PackedOf(first + j, blk.min_delta)
             /\ ptype = "INT32" =>
                  /\ BatchDelta(first + j)
                       = SignExtend(Truncate(BatchDelta(first + j), 4), 8)
                  /\ SubSeq(PackedOf(first + j, blk.min_delta), 5, 8) = Zeros(4)
  IN  fits(f.blocks[b], f.blocks[b].bit_widths[m])

\* C25: in every mini block the bit width is the number of bits of the
\* largest packed value (delta - min delta), every packed value fits it and
\* is in the output whole; for INT32 the deltas are 32-bit values, the packed
\* values are below 2^32 and the width is at most 32, for INT64 at most 64.
C25_PackedValuesFit ==
  DeltaFlushed =>
    LET holds(f) ==
          /\ f.ok
          /\ f.total = Len(ret.batch)
          /\ \A b \in 1..Len(f.blocks) :
               \A m \in 1..4 :
                 DeltasIn(f.total, b, m) >= 1
                   => MiniBlockFits(f, b, m, DeltasIn(f.total, b, m))
    IN  holds(DeltaFrame(ret.data, 1))

\* INT32 [0, MIN, 0, 0]: deltas MIN, MIN, 0, min delta MIN, packed values
\* 0, 0, 2^31, bit width 32
C25_Witness ==
  /\ DeltaFlushed
  /\ ptype = "INT32"
  /\ ret.batch = <<NatToBytes(0, 4), I32_MIN, NatToBytes(0, 4), NatToBytes(0, 4)>>
  /\ DeltaFrame(ret.data, 1).blocks[1].bit_widths[1] = 32
  /\ PackedIn(ret.data, DeltaFrame(ret.data, 1).blocks[1], 1, 2)
       = <<0, 0, 0, 128, 0, 0, 0, 0>>

\* the four ULEB128 integers at the start of data: [ok, values, next]
FourVlqs(data) ==
  LET all(a, b, c, d) ==
        [ok |-> a.ok /\ b.ok /\ c.ok /\ d.ok,
         values |-> <<a.value, b.value, c.value, d.value>>, next |-> d.next]
      fourth(a, b, c) == all(a, b, c, ReadVlq(data, c.next))
      third(a, b) == fourth(a, b, ReadVlq(data, b.next))
      second(a) == third(a, ReadVlq(data, a.next))
  IN  second(ReadVlq(data, 1))

\* C26: for every total_values and every first_value the page header (block
\* size 128, 4 mini blocks, total_values, zig-zag first_value, each a
\* ULEB128 integer) is at most MAX_PAGE_HEADER_WRITER_SIZE = 32 bytes long and
\* none of its four writes fails: the writer holds all four, whole.
C26_HeaderFits ==
  ret.op = "write_page_header" =>
    /\ ~ret.write_failed
    /\ Len(ret.data) <= MAX_PAGE_HEADER_WRITER_SIZE
    /\ FourVlqs(ret.data).ok
    /\ FourVlqs(ret.data).next = Len(ret.data) + 1
    /\ FourVlqs(ret.data).values[1] = U64(DEFAULT_BLOCK_SIZE)
    /\ FourVlqs(ret.data).values[2] = U64(DEFAULT_NUM_MINI_BLOCKS)
    /\ FourVlqs(ret.data).values[3] = ret.batch[1]
    /\ UnZigZag(FourVlqs(ret.data).values[4]) = ret.batch[2]

\* total_values = 2^64 - 1 and first_value = i64::MIN, whose zig-zag is
\* 2^64 - 1: ten bytes each, 23 bytes in all
C26_Witness ==
  /\ ret.op = "write_page_header"
  /\ ret.batch = <<OnesBelow(64), I64_MIN>>
  /\ Len(ret.data) = 2 + 1 + MAX_VLQ_BYTE_LEN + MAX_VLQ_BYTE_LEN
  /\ ~ret.write_failed

\* a table of 1024 slots doubled zero or more times
IsDoubledSize(n) == \E k \in 0..8 : n = INITIAL_HASH_TABLE_SIZE * Pow2(k)

\* C27: the hash table of a DictEncoder keeps its load bound: its capacity is
\* 1024 doubled zero or more times, mod_bitmask is the capacity less one, and
\* after every put the number of entries is at most floor(0.7 * capacity),
\* which is less than the capacity, so that the table holds an empty slot at
\* which every linear probe ends
C27_LoadBound ==
  (status = "live" /\ enc.kind = "DictEncoder") =>
    /\ IsDoubledSize(enc.hash_table_size)
    /\ Len(enc.hash_slots) = enc.hash_table_size
    /\ enc.mod_bitmask = enc.hash_table_size - 1
    /\ num_entries(enc) <= (enc.hash_table_size * 7) \div 10
    /\ (enc.hash_table_size * 7) \div 10 < enc.hash_table_size
    /\ \E j \in 1..enc.hash_table_size : enc.hash_slots[j] = HASH_SLOT_EMPTY

\* a put has overloaded the table of 1024 slots, and the table was doubled
C27_Witness ==
  /\ status = "live"
  /\ enc.kind = "DictEncoder"
  /\ ret.op = "put"
  /\ ret.res = "Ok"
  /\ num_entries(enc) = MaxGrowLen
  /\ enc.hash_table_size = 2 * INITIAL_HASH_TABLE_SIZE

\* the slot at which a probe for the value of index i ends in the table of e
FoundAt(e, T, i) ==
  Probe(e.hash_slots, e.hash_table_size, e.uniques, e.uniques[i + 1],
        BitAndMask(hash(e.hash_kind, T, e.uniques[i + 1]), e.hash_table_size - 1))

\* C28: the rehash preserves the dictionary: once the table was doubled the
\* dictionary is still the values put in the order they were first put, every
\* index below num_entries is in exactly one slot and every other slot is
\* empty, and the probe for every value of the dictionary ends at the slot of
\* its index, so that a later put of it adds no entry
C28_RehashPreserves ==
  (status = "live" /\ enc.kind = "DictEncoder"
     /\ enc.hash_table_size > INITIAL_HASH_TABLE_SIZE) =>
    /\ enc.uniques = seen
    /\ \A j \in 1..enc.hash_table_size :
         enc.hash_slots[j] \in HASH_SLOT_EMPTY..(num_entries(enc) - 1)
    /\ Cardinality({j \in 1..enc.hash_table_size :
                      enc.hash_slots[j] # HASH_SLOT_EMPTY}) = num_entries(enc)
    /\ \A i \in 0..(num_entries(enc) - 1) :
         enc.hash_slots[FoundAt(enc, ptype, i) + 1] = i

\* a value of the dictionary was put again after the table was doubled
C28_Witness ==
  /\ status = "live"
  /\ enc.kind = "DictEncoder"
  /\ enc.hash_table_size = 2 * INITIAL_HASH_TABLE_SIZE
  /\ enc.hash_kind = "pair"
  /\ ret.op = "put"
  /\ puts = MaxPuts
  /\ Len(ret.batch) = MaxGrowLen
  /\ pending[Len(pending)] = ret.batch[Len(ret.batch)]
  /\ num_entries(enc) = MaxGrowLen

\* C29: an overflow of the sink of the RLE writer is a General error: a put
\* on a RleValueEncoder<Bool> never panics, and it returns the error exactly
\* when the RleEncoder refused a value of it; write_indices of a DictEncoder
\* never panics either, and when it returns the error the buffered indices
\* are still there
C29_OverflowIsGeneral ==
  /\ (requested = "RLE" /\ ptype = "BOOLEAN" /\ ret.op = "put") =>
       /\ status = "live"
       /\ ret.res \in {"Ok", "General"}
       /\ (ret.res = "General") <=>
            (enc.encoder[1].buffer_full /\ Len(pending) > Len(ret.batch))
  /\ (status # "none" /\ requested = "PLAIN_DICTIONARY"
        /\ ret.op = "flush_buffer") =>
       /\ status = "live"
       /\ ret.res \in {"Ok", "General"}
       /\ (ret.res = "General") => Len(enc.buffered_indices) = Len(ret.batch)
       /\ (ret.res = "Ok") => enc.buffered_indices = <<>>

\* a put of 513 runs of eight values was refused
C29_Witness ==
  /\ status = "live"
  /\ requested = "RLE"
  /\ ret.op = "put"
  /\ ret.res = "General"
  /\ ret.batch = <<>>
  /\ Len(pending) = MaxRleLen

\* C30: what flush_buffer of a RleValueEncoder<Bool> returns is a length L in
\* four little-endian bytes and then exactly L bytes, and once a put was made,
\* of an empty slice even, the RLE encoder is there and stays there: no flush
\* fails the assertion "not initialized"
C30_LengthPrefixAndInitialised ==
  (requested = "RLE" /\ ptype = "BOOLEAN") =>
    /\ (ret.op = "flush_buffer" /\ ret.res = "Ok") =>
         /\ Len(ret.data) >= 4
         /\ ret.data[1] + 256 * ret.data[2] + 65536 * ret.data[3]
              + 16777216 * ret.data[4] = Len(ret.data) - 4
    /\ puts > 0 => (status = "live" /\ enc.encoder # <<>>)

\* the second flush after a put of an empty slice
C30_Witness ==
  /\ requested = "RLE"
  /\ ptype = "BOOLEAN"
  /\ status = "live"
  /\ ret.op = "flush_buffer"
  /\ ret.res = "Ok"
  /\ flushes = MaxFlushes
  /\ puts > 0
  /\ seen = <<>>

====
